---- MODULE Spec2Model ----
(***************************************************************************)
(* State-machine model of slurm-term's polling/diffing engine (MonitorTab, *)
(* InspectorTab, HistoryTab) and of its log tailer.                        *)
(*                                                                         *)
(* Text is modelled as a sequence of one-character strings, so that        *)
(* lower(), strip(), substring tests and character-class checks are        *)
(* computed and not assumed.                                               *)
(***************************************************************************)
EXTENDS Integers, Sequences, FiniteSets, TLC

\* ------------------------------------------------------------------ bounds
\* Executor threads of cancelled workers that may still be running one call.
MaxOrphans == 1

\* The last second of the monotonic clock.
MaxClock == 3

\* The last generation of log tailers (_tail_gen) that is started.
MaxGen == 3

\* Lines one tailer follows after the initial content.
MaxLines == 1

\* Manual refreshes of the Hardware tab that are followed.
MaxRefreshes == 2

\* Samples in a metric window beyond which the inspector timer is not followed.
MaxSamples == 2

\* The notifications counted for one job
MaxNotices == 2

\* The age up to which the job of the simulator is followed, in seconds
MaxAge == 35

\* ------------------------------------------------------------ text helpers
S_RUNNING == <<"R", "U", "N", "N", "I", "N", "G">>
S_PENDING == <<"P", "E", "N", "D", "I", "N", "G">>
S_COMPLETED == <<"C", "O", "M", "P", "L", "E", "T", "E", "D">>

UpperLetters ==
    <<"A", "B", "C", "D", "E", "F", "G", "H", "I", "J", "K", "L", "M",
      "N", "O", "P", "Q", "R", "S", "T", "U", "V", "W", "X", "Y", "Z">>

LowerLetters ==
    <<"a", "b", "c", "d", "e", "f", "g", "h", "i", "j", "k", "l", "m",
      "n", "o", "p", "q", "r", "s", "t", "u", "v", "w", "x", "y", "z">>

\* str.lower() on one character
LowerChar(c) ==
    IF \E i \in 1..26 : UpperLetters[i] = c
    THEN LowerLetters[CHOOSE i \in 1..26 : UpperLetters[i] = c]
    ELSE c

\* str.lower()
Lower(s) == [i \in 1..Len(s) |-> LowerChar(s[i])]

\* The characters str.strip() drops
Whitespace == {" ", "\t", "\n", "\r"}

\* str.strip(): drop leading and trailing whitespace
RECURSIVE LStrip(_)
LStrip(s) == IF s # <<>> /\ Head(s) \in Whitespace THEN LStrip(Tail(s)) ELSE s

RECURSIVE RStrip(_)
RStrip(s) ==
    IF s # <<>> /\ s[Len(s)] \in Whitespace THEN RStrip(SubSeq(s, 1, Len(s) - 1)) ELSE s

Strip(s) == RStrip(LStrip(s))

\* Python's `q in s` on strings
Contains(q, s) ==
    \E i \in 0..(Len(s) - Len(q)) : SubSeq(s, i + 1, i + Len(q)) = q

\* ------------------------------------------------- the external job queue
\* A JSON value that is a list or a bare string (job_state comes in both forms).
JList(items) == [kind |-> "list", value |-> items]
JStr(text) == [kind |-> "str", value |-> text]

RawEntry(id, name, partition, job_state, elapsed) ==
    [job_id |-> id, name |-> name, partition |-> partition, job_state |-> job_state,
     elapsed |-> elapsed, nodes |-> <<"1">>, state_reason |-> <<"N", "o", "n", "e">>]

\* Entries of the "jobs" array of `squeue --json`, as _parse_job_entry reads
\* them: job_state is a list or a bare string, time.elapsed is in seconds.
RawEntries ==
    { RawEntry(1, <<"A", "b">>, <<"g", "p", "u">>, JList(<<S_RUNNING>>), 0),
      RawEntry(1, <<"A", "b">>, <<"g", "p", "u">>, JList(<<S_RUNNING>>), 61),
      RawEntry(1, <<"A", "b">>, <<"g", "p", "u">>, JStr(S_COMPLETED), 61),
      RawEntry(2, <<"r", "u", "n">>, <<"c", "p", "u">>, JStr(S_PENDING), 0),
      RawEntry(2, <<"r", "u", "n">>, <<"c", "p", "u">>, JList(<<S_RUNNING>>), 0),
      RawEntry(3, <<"c">>, <<"g", "p", "u">>, JList(<<S_RUNNING>>), 0) }

RawIds == {e.job_id : e \in RawEntries}

\* The job lists squeue can report: any jobs, in any order, one entry per id.
RawQueues ==
    UNION { { q \in [1..n -> RawEntries] :
                \A i, j \in 1..n : i # j => q[i].job_id # q[j].job_id } :
            n \in 0..Cardinality(RawIds) }

Digits == <<"0", "1", "2", "3", "4", "5", "6", "7", "8", "9">>

\* str(n) for a non-negative integer
RECURSIVE Str(_)
Str(n) == IF n < 10 THEN <<Digits[n + 1]>>
          ELSE Str(n \div 10) \o <<Digits[(n % 10) + 1]>>

\* f"{n:02d}"
Pad2(n) == IF n < 10 THEN <<"0">> \o Str(n) ELSE Str(n)

\* SlurmController._parse_job_entry: the fields MonitorTab shows
_parse_job_entry(e) ==
    LET h == e.elapsed \div 3600
        rem == e.elapsed % 3600
    IN [job_id |-> Str(e.job_id),
        name |-> e.name,
        partition |-> e.partition,
        state |-> IF e.job_state.kind = "list" THEN e.job_state.value[1]
                  ELSE e.job_state.value,
        time_used |-> Pad2(h) \o <<":">> \o Pad2(rem \div 60) \o <<":">>
                      \o Pad2(rem % 60),
        nodes |-> e.nodes,
        reason |-> e.state_reason]

\* What subprocess.run can do with a command line: exit with 0 or not, run
\* into the timeout, find no binary, or fail with another OSError (a binary
\* that is not executable).
ProcKinds == {"exit0", "nonzero", "timeout", "not_found", "os_error"}

\* What a command that exited with 0 can have printed.
StdoutKinds == {"jobs_object", "not_json", "json_not_object"}

\* SlurmController._run: the return code the caller sees; a timeout and a
\* missing binary become synthetic results with codes 124 and 127, any other
\* exception of subprocess.run leaves _run.
_run(proc) ==
    CASE proc = "exit0" -> [raised |-> FALSE, returncode |-> 0]
      [] proc = "nonzero" -> [raised |-> FALSE, returncode |-> 1]
      [] proc = "timeout" -> [raised |-> FALSE, returncode |-> 124]
      [] proc = "not_found" -> [raised |-> FALSE, returncode |-> 127]
      [] proc = "os_error" -> [raised |-> TRUE, returncode |-> 0]

\* SlurmController.get_queue on one run of squeue: the list it returns, or
\* the exception that leaves it (from _run, or from data.get on a JSON value
\* that is no object).
get_queue(proc, out, raw) ==
    IF _run(proc).raised THEN [raised |-> TRUE, failed |-> TRUE, jobs |-> <<>>]
    ELSE IF _run(proc).returncode # 0
    THEN [raised |-> FALSE, failed |-> TRUE, jobs |-> <<>>]
    ELSE IF out = "not_json" THEN [raised |-> FALSE, failed |-> TRUE, jobs |-> <<>>]
    ELSE IF out = "json_not_object" THEN [raised |-> TRUE, failed |-> TRUE, jobs |-> <<>>]
    ELSE [raised |-> FALSE, failed |-> FALSE,
          jobs |-> [i \in 1..Len(raw) |-> _parse_job_entry(raw[i])]]

\* Every outcome of one get_queue call when squeue reports one of `queues`.
FetchesOver(queues) ==
    {get_queue(p, o, <<>>) : p \in ProcKinds, o \in StdoutKinds \ {"jobs_object"}}
    \cup {get_queue("exit0", "jobs_object", raw) : raw \in queues}

QueueFetches == FetchesOver(RawQueues)

\* The same for a user who has only jobs 1 and 2 in the queue.
TwoJobQueues == {q \in RawQueues : \A i \in 1..Len(q) : q[i].job_id # 3 /\ q[i].elapsed = 0}

TwoJobFetches == FetchesOver(TwoJobQueues)

\* ------------------------------------------------------------- MonitorTab
VARIABLES
    app_running,            \* FALSE once an unhandled worker error ended the app
    now,                    \* time.monotonic(), in seconds
    queue_timer,            \* the interval timer of on_mount is set
    queue_worker,           \* the live worker of group "queue"
    queue_orphans,          \* get_queue calls still running for cancelled workers
    _jobs,                  \* MonitorTab._jobs, in dict order
    _selected,              \* MonitorTab._selected
    _search_query,          \* MonitorTab._search_query
    _last_manual_refresh,   \* MonitorTab._last_manual_refresh
    rows,                   \* rows of #queue-table, top to bottom
    table_ops,              \* what the last handler did to #queue-table
    confirm,                \* the ConfirmScreen of action_cancel_job, while it is up
    bulk                    \* the live worker of group "job-action"

monitor_vars ==
    <<now, queue_timer, queue_worker, queue_orphans, _jobs, _selected,
      _search_query, _last_manual_refresh, rows, table_ops, confirm, bulk>>


VARIABLES
    login_user,                 \* what SlurmController.current_user() returns
    _history_window,            \* HistoryTab._history_window
    hist_timer,                 \* the interval timer of on_mount is set
    hist_worker,                \* the live worker of group "history-fetch"
    hist_orphans,               \* get_sacct calls still running for cancelled workers
    hist_last_manual_refresh,   \* HistoryTab._last_manual_refresh
    hist_rows,                  \* rows of #history-table
    hist_status                 \* text of #history-status

history_vars ==
    <<login_user, _history_window, hist_timer, hist_worker, hist_orphans,
      hist_last_manual_refresh, hist_rows, hist_status>>

VARIABLES
    _mounted,           \* InspectorTab._mounted
    _pending_job_id,    \* InspectorTab._pending_job_id
    _current_job_id,    \* InspectorTab._current_job_id
    _poll_timer,        \* InspectorTab._poll_timer is a running timer
    insp_worker,        \* the live worker of group "inspector-poll"
    insp_orphans,       \* get_job_details calls still running for cancelled workers
    header,             \* what #inspector-header shows
    progress,           \* total and progress of #time-progress
    charts,             \* the data of #chart-cpu, #chart-mem, #chart-gpu
    _cpu_history,       \* InspectorTab._cpu_history
    _mem_history,       \* InspectorTab._mem_history
    _gpu_history,       \* InspectorTab._gpu_history
    _tailing,           \* InspectorTab._tailing
    _tail_gen,          \* InspectorTab._tail_gen
    _log_mode,          \* InspectorTab._log_mode
    _stdout_path,       \* InspectorTab._stdout_path
    _stderr_path,       \* InspectorTab._stderr_path
    log_view,           \* what #inspector-logs holds, each write with the generation it came from
    tailers             \* the workers of group "log-tail", in the order they were started

metric_vars == <<progress, charts, _cpu_history, _mem_history, _gpu_history>>

tail_vars == <<_tailing, _tail_gen, _log_mode, _stdout_path, _stderr_path, log_view, tailers>>

inspector_vars ==
    <<_mounted, _pending_job_id, _current_job_id, _poll_timer, insp_worker, insp_orphans,
      header, metric_vars, tail_vars>>

VARIABLES
    notify_on_complete,     \* SlurmTermConfig.notify_on_complete
    notify_on_fail,         \* SlurmTermConfig.notify_on_fail
    hw_timer,               \* the interval timer of HardwareTab.on_mount is set
    hw_worker,              \* the live worker of group "hw-fetch"
    hw_orphans,             \* get_sinfo/get_node_info pairs still running for cancelled workers
    hw_status,              \* what #hw-status shows
    hw_refreshes,           \* the times at which action_refresh started a fetch
    sim_job,                \* one job of MockSlurmController: its _jobs entry, its age, and
                            \* whether it is in _jobs, _cancelled and _held
    api_call,               \* the last call of a function of the API: its arguments and what it gave
    templates_dir,          \* TEMPLATES_DIR on disk: whether it exists, and its *.json files
    toasts                  \* how many end-of-job notifications App.notify has shown, per job id

config_vars == <<notify_on_complete, notify_on_fail>>

hardware_vars == <<hw_timer, hw_worker, hw_orphans, hw_status, hw_refreshes>>

app_vars == <<config_vars, hardware_vars, sim_job, api_call, templates_dir, toasts>>

_REFRESH_COOLDOWN == 2

\* Keys of a job dict / of the table
Keys(d) == {d[i].job_id : i \in 1..Len(d)}

RowKeys(t) == {t[i].key : i \in 1..Len(t)}

\* The value of job_id in a dict that has it
JobOf(d, job_id) == d[CHOOSE i \in 1..Len(d) : d[i].job_id = job_id]

\* {j.job_id: j for j in jobs}: a repeated key keeps its first position and
\* takes the last value.
RECURSIVE DictOf(_)
DictOf(jobs) ==
    IF jobs = <<>> THEN <<>>
    ELSE LET init == DictOf(SubSeq(jobs, 1, Len(jobs) - 1))
             last == jobs[Len(jobs)]
         IN IF last.job_id \in Keys(init)
            THEN [i \in 1..Len(init) |->
                     IF init[i].job_id = last.job_id THEN last ELSE init[i]]
            ELSE Append(init, last)

\* What one handler did to the table and to the selection: the kind of
\* handler, whether it applied a failed fetch, table.clear(), the keys given to
\* remove_row, update_cell and add_row, the common keys whose (state,
\* time_used, reason, nodes) did not change, and the ids pruned from _selected.
NoOps ==
    [kind |-> "none", failed |-> FALSE, cleared |-> FALSE,
     removed |-> {}, updated |-> {}, added |-> {}, same |-> {}, pruned |-> {},
     notified |-> {}]

\* The row tuple built for a job: the name cell carries the selection mark.
RowFor(job, selected) ==
    [key |-> job.job_id,
     cells |-> <<job.job_id,
                 (IF job.job_id \in selected THEN <<"*", " ">> ELSE <<>>) \o job.name,
                 job.partition, job.state, job.time_used, job.nodes, job.reason>>]

\* A variant of the filter that does not look at the partition
_filtered_jobs_NoPartition(jobs, q) ==
    IF q = <<>> THEN jobs
    ELSE LET Match(j) == \/ Contains(q, Lower(j.name))
                         \/ Contains(q, Lower(j.job_id))
                         \/ Contains(q, Lower(j.state))
         IN SelectSeq(jobs, Match)

\* MonitorTab._filtered_jobs
_filtered_jobs(jobs, q) ==
    IF q = <<>> THEN jobs
    ELSE LET Match(j) == \/ Contains(q, Lower(j.name))
                         \/ Contains(q, Lower(j.job_id))
                         \/ Contains(q, Lower(j.state))
                         \/ Contains(q, Lower(j.partition))
         IN SelectSeq(jobs, Match)

\* MonitorTab._rebuild_table: table.clear() and one add_row per filtered job
RebuiltRows(jobs, q, selected) ==
    LET filtered == _filtered_jobs(jobs, q)
    IN [i \in 1..Len(filtered) |-> RowFor(filtered[i], selected)]

RebuildOps(jobs, q) ==
    [kind |-> "rebuild", failed |-> FALSE, cleared |-> TRUE, removed |-> {},
     updated |-> {}, added |-> Keys(_filtered_jobs(jobs, q)), same |-> {},
     pruned |-> {}, notified |-> {}]

\* A variant that forgets to prune
PrunedSelection_Kept(selected, new_jobs) == selected

\* self._selected &= set(new_jobs)
PrunedSelection(selected, new_jobs) == selected \cap Keys(new_jobs)

\* A variant that never removes a row
RowsToRemove_None(displayed, new_jobs) == {}

\* displayed - set(new_jobs): the rows _update_table removes
RowsToRemove(displayed, new_jobs) == displayed \ Keys(new_jobs)

\* `job_id in displayed`: the row is updated in place, not added
IsDisplayed(job_id, displayed) == job_id \in displayed

\* The unfiltered branch of _update_table on the table: remove_row for the
\* rows that left, update_cell on every column of a row that stays, add_row at
\* the bottom for a new job, in new_jobs' order.
DiffedRows(table, new_jobs, selected) ==
    LET displayed == RowKeys(table)
        gone == RowsToRemove(displayed, new_jobs)
        Stays(r) == r.key \notin gone
        kept == SelectSeq(table, Stays)
        IsNew(j) == ~IsDisplayed(j.job_id, displayed)
        fresh == SelectSeq(new_jobs, IsNew)
    IN [i \in 1..Len(kept) |->
           IF kept[i].key \in Keys(new_jobs)
              /\ IsDisplayed(kept[i].key, displayed)
           THEN RowFor(JobOf(new_jobs, kept[i].key), selected)
           ELSE kept[i]]
       \o [i \in 1..Len(fresh) |-> RowFor(fresh[i], selected)]

DiffOps(table, new_jobs) ==
    LET displayed == RowKeys(table)
    IN [kind |-> "update", failed |-> FALSE, cleared |-> FALSE,
        removed |-> RowsToRemove(displayed, new_jobs),
        updated |-> {k \in Keys(new_jobs) : IsDisplayed(k, displayed)},
        added |-> {k \in Keys(new_jobs) : ~IsDisplayed(k, displayed)},
        same |-> {}, pruned |-> {}, notified |-> {}]

\* The tuple the specification compares to decide whether a job changed
JobTuple(job) == <<job.state, job.time_used, job.reason, job.nodes>>

UnchangedJobs(old_jobs, new_jobs) ==
    {k \in Keys(old_jobs) \cap Keys(new_jobs) :
        JobTuple(JobOf(old_jobs, k)) = JobTuple(JobOf(new_jobs, k))}

S_FAILED == <<"F", "A", "I", "L", "E", "D">>
S_TIMEOUT == <<"T", "I", "M", "E", "O", "U", "T">>
S_NODE_FAIL == <<"N", "O", "D", "E", "_", "F", "A", "I", "L">>
S_OUT_OF_MEMORY == <<"O", "U", "T", "_", "O", "F", "_", "M", "E", "M", "O", "R", "Y">>
S_CANCELLED == <<"C", "A", "N", "C", "E", "L", "L", "E", "D">>

\* str.upper() on one character
UpperChar(c) ==
    IF \E i \in 1..26 : LowerLetters[i] = c
    THEN UpperLetters[CHOOSE i \in 1..26 : LowerLetters[i] = c]
    ELSE c

\* str.upper()
Upper(s) == [i \in 1..Len(s) |-> UpperChar(s[i])]

\* A variant that takes a cancelled job for a failed one
FailureStates_WithCancelled ==
    {S_FAILED, S_TIMEOUT, S_NODE_FAIL, S_OUT_OF_MEMORY, S_CANCELLED}

\* The states _update_table reports as "Job Failed"
FailureStates == {S_FAILED, S_TIMEOUT, S_NODE_FAIL, S_OUT_OF_MEMORY}

\* One call of self.app.notify for a job
Notice(job_id, title) == [job_id |-> job_id, title |-> title]

\* The first loop of _update_table: the notifications for the jobs of both
\* snapshots whose state changed
TransitionNotices(old_jobs, new_jobs, on_complete, on_fail) ==
    LET Old(k) == Upper(JobOf(old_jobs, k).state)
        New(k) == Upper(JobOf(new_jobs, k).state)
        changed == {k \in Keys(old_jobs) \cap Keys(new_jobs) : Old(k) # New(k)}
    IN {Notice(k, "Job Completed") : k \in {c \in changed : New(c) = S_COMPLETED /\ on_complete}}
       \cup {Notice(k, "Job Failed") :
                k \in {c \in changed : /\ ~(New(c) = S_COMPLETED /\ on_complete)
                                       /\ New(c) \in FailureStates /\ on_fail}}

\* A variant that reports every job that left the queue
FinishedNotices_AnyState(old_jobs, new_jobs, on_complete) ==
    {Notice(k, "Job Finished") : k \in {g \in Keys(old_jobs) \ Keys(new_jobs) : on_complete}}

\* The second loop of _update_table: the notifications for the jobs that left
\* the queue while RUNNING
FinishedNotices(old_jobs, new_jobs, on_complete) ==
    {Notice(k, "Job Finished") :
        k \in {g \in Keys(old_jobs) \ Keys(new_jobs) :
                  on_complete /\ Upper(JobOf(old_jobs, g).state) = S_RUNNING}}

\* The notifications shown for a job so far; toasts holds one <<job_id, count>>
\* pair for every job that was notified
Shown(shown, job_id) ==
    IF \E p \in shown : p[1] = job_id
    THEN (CHOOSE p \in shown : p[1] = job_id)[2]
    ELSE 0

\* self.app.notify, once for each job of `ids`
Notified(shown, ids) ==
    {p \in shown : p[1] \notin ids} \cup {<<k, Shown(shown, k) + 1>> : k \in ids}

NoBulk == [active |-> FALSE, todo |-> <<>>]

NoConfirm == [up |-> FALSE, targets |-> <<>>]

\* All orders in which list(set) can enumerate a set
Orderings(S) ==
    {q \in [1..Cardinality(S) -> S] : \A i, j \in 1..Cardinality(S) : i # j => q[i] # q[j]}

MonitorInit ==
    /\ now = 0
    /\ queue_timer = FALSE
    /\ queue_worker = "none"
    /\ queue_orphans = 0
    /\ _jobs = <<>>
    /\ _selected = {}
    /\ _search_query = <<>>
    /\ _last_manual_refresh = 0
    /\ rows = <<>>
    /\ table_ops = NoOps
    /\ confirm = NoConfirm
    /\ bulk = NoBulk

\* run_worker(self._fetch_queue, exclusive=True, group="queue"): the workers of
\* the group are cancelled and a new one is created.  Cancelling a worker
\* cancels its asyncio task; a get_queue call that already runs in the executor
\* thread cannot be interrupted and runs to its end.
_poll ==
    /\ queue_worker = "executing" => queue_orphans < MaxOrphans
    /\ queue_orphans' = IF queue_worker = "executing" THEN queue_orphans + 1
                        ELSE queue_orphans
    /\ queue_worker' = "pending"

\* A key handler of MonitorTab can run: the tab is mounted, the app is up and
\* no modal screen holds the keyboard.
KeysReachMonitor == app_running /\ queue_timer /\ ~confirm.up

\* MonitorTab.on_mount
OnMount ==
    /\ app_running /\ ~queue_timer
    /\ queue_timer' = TRUE
    /\ _poll
    /\ table_ops' = NoOps
    /\ UNCHANGED <<app_vars, inspector_vars, history_vars, app_running, now, _jobs, _selected, _search_query,
                   _last_manual_refresh, rows, confirm, bulk>>

\* The timer of set_interval(self.poll_interval, self._poll) fires
IntervalTick ==
    /\ app_running /\ queue_timer
    /\ _poll
    /\ table_ops' = NoOps
    /\ UNCHANGED <<app_vars, inspector_vars, history_vars, app_running, now, queue_timer, _jobs, _selected, _search_query,
                   _last_manual_refresh, rows, confirm, bulk>>

\* MonitorTab.action_refresh
ActionRefresh ==
    /\ KeysReachMonitor
    /\ table_ops' = NoOps
    /\ IF now - _last_manual_refresh < _REFRESH_COOLDOWN
       THEN UNCHANGED <<queue_worker, queue_orphans, _last_manual_refresh>>
       ELSE /\ _last_manual_refresh' = now
            /\ _poll
    /\ UNCHANGED <<app_vars, inspector_vars, history_vars, app_running, now, queue_timer, _jobs, _selected, _search_query,
                   rows, confirm, bulk>>

\* The event loop runs the worker's task up to its await: get_queue is handed
\* to the executor.
QueueWorkerStarts ==
    /\ app_running /\ queue_worker = "pending"
    /\ queue_worker' = "executing"
    /\ UNCHANGED <<app_vars, inspector_vars, history_vars, app_running, now, queue_timer, queue_orphans, _jobs, _selected,
                   _search_query, _last_manual_refresh, rows, table_ops, confirm, bulk>>

\* get_queue returns in the executor thread of the live worker
QueueFetchReturns ==
    /\ app_running /\ queue_worker = "executing"
    /\ queue_worker' = "returned"
    /\ UNCHANGED <<app_vars, inspector_vars, history_vars, app_running, now, queue_timer, queue_orphans, _jobs, _selected,
                   _search_query, _last_manual_refresh, rows, table_ops, confirm, bulk>>

\* get_queue returns in the thread of a cancelled worker: nobody awaits it
QueueOrphanReturns ==
    /\ queue_orphans > 0
    /\ queue_orphans' = queue_orphans - 1
    /\ UNCHANGED <<app_vars, inspector_vars, history_vars, app_running, now, queue_timer, queue_worker, _jobs, _selected,
                   _search_query, _last_manual_refresh, rows, table_ops, confirm, bulk>>

\* MonitorTab._update_table
_update_table(fetch) ==
    LET new_jobs == DictOf(fetch.jobs)
        selected == PrunedSelection(_selected, new_jobs)
        notices == TransitionNotices(_jobs, new_jobs, notify_on_complete, notify_on_fail)
                   \cup FinishedNotices(_jobs, new_jobs, notify_on_complete)
    IN /\ _jobs' = new_jobs
       /\ _selected' = selected
       /\ IF _search_query # <<>>
          THEN /\ rows' = RebuiltRows(new_jobs, _search_query, selected)
               /\ table_ops' = [RebuildOps(new_jobs, _search_query) EXCEPT
                                   !.kind = "update", !.failed = fetch.failed,
                                   !.same = UnchangedJobs(_jobs, new_jobs),
                                   !.pruned = _selected \ selected,
                                   !.notified = notices]
          ELSE /\ rows' = DiffedRows(rows, new_jobs, selected)
               /\ table_ops' = [DiffOps(rows, new_jobs) EXCEPT
                                   !.failed = fetch.failed,
                                   !.same = UnchangedJobs(_jobs, new_jobs),
                                   !.pruned = _selected \ selected,
                                   !.notified = notices]
       /\ toasts' = Notified(toasts, {n.job_id : n \in table_ops'.notified})
       /\ \A p \in toasts' : p[2] <= MaxNotices

\* MonitorTab._fetch_queue resumes after its await with what get_queue
\* returned, or with the exception that left it.  An exception leaves the
\* worker, and a failed worker ends the app (run_worker's exit_on_error).
QueueFetchApplied(fetches) ==
    /\ app_running /\ queue_worker = "returned"
    /\ queue_worker' = "none"
    /\ \E fetch \in fetches :
          IF fetch.raised
          THEN /\ app_running' = FALSE
               /\ UNCHANGED <<_jobs, _selected, rows, table_ops, toasts>>
          ELSE /\ _update_table(fetch)
               /\ UNCHANGED app_running
    /\ UNCHANGED <<config_vars, hardware_vars, sim_job, api_call, templates_dir, inspector_vars,
                   history_vars, now, queue_timer, queue_orphans, _search_query,
                   _last_manual_refresh, confirm, bulk>>

\* What the user can have typed into #queue-search
InputValues == {<<>>, <<" ", "R", "U", "N">>, <<"g", "p">>}

\* MonitorTab.on_input_changed for #queue-search
OnInputChanged ==
    /\ KeysReachMonitor
    /\ \E value \in InputValues :
          /\ _search_query' = Lower(Strip(value))
          /\ rows' = RebuiltRows(_jobs, Lower(Strip(value)), _selected)
          /\ table_ops' = RebuildOps(_jobs, Lower(Strip(value)))
    /\ UNCHANGED <<app_vars, inspector_vars, history_vars, app_running, now, queue_timer, queue_worker, queue_orphans, _jobs,
                   _selected, _last_manual_refresh, confirm, bulk>>

\* MonitorTab._on_key for Escape; has_focus is the focus of #queue-search
OnKeyEscape ==
    /\ KeysReachMonitor
    /\ \E has_focus \in BOOLEAN :
          IF _selected # {}
          THEN /\ _selected' = {}
               /\ rows' = RebuiltRows(_jobs, _search_query, {})
               /\ table_ops' = RebuildOps(_jobs, _search_query)
               /\ UNCHANGED _search_query
          ELSE IF has_focus \/ _search_query # <<>>
          THEN /\ _search_query' = <<>>
               /\ rows' = RebuiltRows(_jobs, <<>>, _selected)
               /\ table_ops' = RebuildOps(_jobs, <<>>)
               /\ UNCHANGED _selected
          ELSE /\ table_ops' = NoOps
               /\ UNCHANGED <<_selected, _search_query, rows>>
    /\ UNCHANGED <<app_vars, inspector_vars, history_vars, app_running, now, queue_timer, queue_worker, queue_orphans, _jobs,
                   _last_manual_refresh, confirm, bulk>>

\* MonitorTab._get_selected_job_id: the key of the row under the cursor, which
\* the user can have moved to any row; no id on an empty table.
CursorIds == IF rows = <<>> THEN {<<>>} ELSE RowKeys(rows)

\* A variant that only ever adds the id
ToggleSelected_Add(selected, jid) == selected \cup {jid}

\* self._selected.symmetric_difference_update({jid})
ToggleSelected(selected, jid) == (selected \ {jid}) \cup ({jid} \ selected)

\* MonitorTab.action_toggle_select
ActionToggleSelect ==
    /\ KeysReachMonitor
    /\ \E jid \in CursorIds :
          IF jid = <<>>
          THEN /\ table_ops' = NoOps
               /\ UNCHANGED <<_selected, rows>>
          ELSE LET selected == ToggleSelected(_selected, jid)
               IN /\ _selected' = selected
                  /\ rows' = RebuiltRows(_jobs, _search_query, selected)
                  /\ table_ops' = RebuildOps(_jobs, _search_query)
    /\ UNCHANGED <<app_vars, inspector_vars, history_vars, app_running, now, queue_timer, queue_worker, queue_orphans, _jobs,
                   _search_query, _last_manual_refresh, confirm, bulk>>

\* MonitorTab.action_select_all
ActionSelectAll ==
    /\ KeysReachMonitor
    /\ LET visible == Keys(_filtered_jobs(_jobs, _search_query))
           selected == IF visible \subseteq _selected THEN {} ELSE visible
       IN /\ _selected' = selected
          /\ rows' = RebuiltRows(_jobs, _search_query, selected)
          /\ table_ops' = RebuildOps(_jobs, _search_query)
    /\ UNCHANGED <<app_vars, inspector_vars, history_vars, app_running, now, queue_timer, queue_worker, queue_orphans, _jobs,
                   _search_query, _last_manual_refresh, confirm, bulk>>

\* MonitorTab._get_action_targets: the selected ids in the order list(set)
\* yields, or the cursor row when nothing is selected.
ActionTargets ==
    IF _selected # {} THEN Orderings(_selected)
    ELSE {IF jid = <<>> THEN <<>> ELSE <<jid>> : jid \in CursorIds}

\* MonitorTab._do_bulk: run_worker(..., group="job-action", exclusive=True)
\* replaces the worker of the group.
_do_bulk(targets) == bulk' = [active |-> TRUE, todo |-> targets]

\* MonitorTab.action_hold_job
ActionHoldJob ==
    /\ KeysReachMonitor
    /\ \E targets \in ActionTargets :
          IF targets # <<>> THEN _do_bulk(targets) ELSE UNCHANGED bulk
    /\ table_ops' = NoOps
    /\ UNCHANGED <<app_vars, inspector_vars, history_vars, app_running, now, queue_timer, queue_worker, queue_orphans, _jobs,
                   _selected, _search_query, _last_manual_refresh, rows, confirm>>

\* MonitorTab.action_release_job
ActionReleaseJob ==
    /\ KeysReachMonitor
    /\ \E targets \in ActionTargets :
          IF targets # <<>> THEN _do_bulk(targets) ELSE UNCHANGED bulk
    /\ table_ops' = NoOps
    /\ UNCHANGED <<app_vars, inspector_vars, history_vars, app_running, now, queue_timer, queue_worker, queue_orphans, _jobs,
                   _selected, _search_query, _last_manual_refresh, rows, confirm>>

\* MonitorTab.action_cancel_job: the targets are fixed when the key is pressed
\* and the confirmation screen is pushed.
ActionCancelJob ==
    /\ KeysReachMonitor
    /\ \E targets \in ActionTargets :
          IF targets # <<>> THEN confirm' = [up |-> TRUE, targets |-> targets]
          ELSE UNCHANGED confirm
    /\ table_ops' = NoOps
    /\ UNCHANGED <<app_vars, inspector_vars, history_vars, app_running, now, queue_timer, queue_worker, queue_orphans, _jobs,
                   _selected, _search_query, _last_manual_refresh, rows, bulk>>

\* The callback of the ConfirmScreen, with the user's answer
ConfirmAnswered ==
    /\ app_running /\ confirm.up
    /\ confirm' = NoConfirm
    /\ \E ok \in BOOLEAN : IF ok THEN _do_bulk(confirm.targets) ELSE UNCHANGED bulk
    /\ table_ops' = NoOps
    /\ UNCHANGED <<app_vars, inspector_vars, history_vars, app_running, now, queue_timer, queue_worker, queue_orphans, _jobs,
                   _selected, _search_query, _last_manual_refresh, rows>>

\* MonitorTab._run_bulk: the call for one target returns (with either result)
\* and the loop goes on to the next target
BulkNextTarget ==
    /\ app_running /\ bulk.active /\ Len(bulk.todo) > 1
    /\ bulk' = [bulk EXCEPT !.todo = Tail(bulk.todo)]
    /\ UNCHANGED <<app_vars, inspector_vars, history_vars, app_running, now, queue_timer, queue_worker, queue_orphans, _jobs,
                   _selected, _search_query, _last_manual_refresh, rows, table_ops,
                   confirm>>

\* MonitorTab._run_bulk: the call for the last target returns; the selection
\* is cleared and the queue polled
BulkFinished ==
    /\ app_running /\ bulk.active /\ Len(bulk.todo) = 1
    /\ bulk' = NoBulk
    /\ _selected' = {}
    /\ _poll
    /\ table_ops' = NoOps
    /\ UNCHANGED <<app_vars, inspector_vars, history_vars, app_running, now, queue_timer, _jobs, _search_query,
                   _last_manual_refresh, rows, confirm>>

\* One second passes
ClockTick ==
    /\ now < MaxClock
    /\ now' = now + 1
    /\ UNCHANGED <<app_vars, inspector_vars, history_vars, app_running, queue_timer, queue_worker, queue_orphans, _jobs,
                   _selected, _search_query, _last_manual_refresh, rows, table_ops,
                   confirm, bulk>>

\* ------------------------------------------------------------- HistoryTab
W_7DAYS == <<"n", "o", "w", "-", "7", "d", "a", "y", "s">>
W_1DAYS == <<"n", "o", "w", "-", "1", "d", "a", "y", "s">>

\* The values of the Select options (_TIME_WINDOWS) offered in the model
_TIME_WINDOWS == {W_1DAYS, W_7DAYS}

\* What the configuration file or --since can hold as history window
ConfigWindows == {W_7DAYS, <<"2", "0", "2", "6", "-", "0", "1">>, <<"l", "a", "s", "t", " ", "w", "k">>}

\* Login names getpass.getuser() can return
LoginUsers == {<<"a", "l">>, <<"H", "P", "C", "\\", "a", "l">>}

RECURSIVE SeqToSet(_)
SeqToSet(q) == IF q = <<>> THEN {} ELSE {Head(q)} \cup SeqToSet(Tail(q))

\* The character class [a-zA-Z0-9_.@:+/-]
SafeFilterChars ==
    SeqToSet(UpperLetters) \cup SeqToSet(LowerLetters) \cup SeqToSet(Digits)
    \cup {"_", ".", "@", ":", "+", "/", "-"}

\* _SAFE_FILTER_RE.match(s): one or more characters of the class up to the end
\* of the string; Python's $ also matches before one final newline.
_SAFE_FILTER_RE(s) ==
    LET body == IF s # <<>> /\ s[Len(s)] = "\n" THEN SubSeq(s, 1, Len(s) - 1) ELSE s
    IN body # <<>> /\ \A i \in 1..Len(body) : body[i] \in SafeFilterChars

\* One line of `sacct -n -P` output, split at "|": the job id and the state
\* among `fields` fields.
SacctLine(job_id, state, fields) == [job_id |-> job_id, state |-> state, fields |-> fields]

\* What sacct can print
SacctOutputs ==
    { <<>>,
      <<SacctLine(<<"7">>, S_COMPLETED, 8), SacctLine(<<"7", ".", "b">>, S_COMPLETED, 8)>>,
      <<SacctLine(<<"8">>, S_COMPLETED, 8), SacctLine(<<"9">>, S_RUNNING, 3)>> }

\* SlurmController.get_sacct: the rows it returns or the exception that
\* leaves it: ValueError for a user or a start time outside the safe class,
\* whatever _run lets through.
get_sacct(user, start_time, proc, lines) ==
    LET IsMainJob(line) ==
            line.fields >= 8 /\ ~Contains(<<".">>, line.job_id)
        kept == SelectSeq(lines, IsMainJob)
    IN IF user # <<>> /\ ~_SAFE_FILTER_RE(user)
       THEN [raised |-> TRUE, rows |-> <<>>]
       ELSE IF start_time # <<>> /\ ~_SAFE_FILTER_RE(start_time)
       THEN [raised |-> TRUE, rows |-> <<>>]
       ELSE IF _run(proc).raised THEN [raised |-> TRUE, rows |-> <<>>]
       ELSE IF _run(proc).returncode # 0 THEN [raised |-> FALSE, rows |-> <<>>]
       ELSE [raised |-> FALSE,
             rows |-> [i \in 1..Len(kept) |->
                          [job_id |-> kept[i].job_id, state |-> kept[i].state]]]

NoWorker == [phase |-> "none", arg |-> <<>>]

HistoryIdle ==
    /\ hist_timer = FALSE
    /\ hist_worker = NoWorker
    /\ hist_orphans = 0
    /\ hist_last_manual_refresh = 0
    /\ hist_rows = <<>>
    /\ hist_status = [loading |-> TRUE, count |-> 0, window |-> <<>>]

\* The History tab as the defaults construct it
HistoryDefault ==
    /\ login_user = <<"a", "l">>
    /\ _history_window = W_7DAYS
    /\ HistoryIdle

\* The History tab for any login name and any configured window
HistoryInit ==
    /\ login_user \in LoginUsers
    /\ _history_window \in ConfigWindows
    /\ HistoryIdle

\* HistoryTab._poll: run_worker(self._fetch, exclusive=True,
\* group="history-fetch"), as _poll of the Monitor tab
History_poll ==
    /\ hist_worker.phase = "executing" => hist_orphans < MaxOrphans
    /\ hist_orphans' = IF hist_worker.phase = "executing" THEN hist_orphans + 1
                       ELSE hist_orphans
    /\ hist_worker' = [phase |-> "pending", arg |-> <<>>]

\* HistoryTab.on_mount
HistoryOnMount ==
    /\ app_running /\ ~hist_timer
    /\ hist_timer' = TRUE
    /\ History_poll
    /\ UNCHANGED <<app_vars, inspector_vars, app_running, monitor_vars, login_user, _history_window,
                   hist_last_manual_refresh, hist_rows, hist_status>>

\* The timer of set_interval(self.poll_interval, self._poll) fires
HistoryIntervalTick ==
    /\ app_running /\ hist_timer
    /\ History_poll
    /\ UNCHANGED <<app_vars, inspector_vars, app_running, monitor_vars, login_user, _history_window, hist_timer,
                   hist_last_manual_refresh, hist_rows, hist_status>>

\* HistoryTab.on_select_changed
HistoryOnSelectChanged ==
    /\ app_running /\ hist_timer
    /\ \E value \in _TIME_WINDOWS : _history_window' = value
    /\ History_poll
    /\ UNCHANGED <<app_vars, inspector_vars, app_running, monitor_vars, login_user, hist_timer,
                   hist_last_manual_refresh, hist_rows, hist_status>>

\* HistoryTab.action_refresh
HistoryActionRefresh ==
    /\ app_running /\ hist_timer
    /\ IF now - hist_last_manual_refresh < _REFRESH_COOLDOWN
       THEN UNCHANGED <<hist_worker, hist_orphans, hist_last_manual_refresh>>
       ELSE /\ hist_last_manual_refresh' = now
            /\ History_poll
    /\ UNCHANGED <<app_vars, inspector_vars, app_running, monitor_vars, login_user, _history_window, hist_timer,
                   hist_rows, hist_status>>

\* HistoryTab._fetch runs up to its await: it reads the window and hands
\* get_sacct to the executor.
HistoryWorkerStarts ==
    /\ app_running /\ hist_worker.phase = "pending"
    /\ hist_worker' = [phase |-> "executing", arg |-> _history_window]
    /\ UNCHANGED <<app_vars, inspector_vars, app_running, monitor_vars, login_user, _history_window, hist_timer,
                   hist_orphans, hist_last_manual_refresh, hist_rows, hist_status>>

\* get_sacct ends in the executor thread of the live worker
HistoryFetchReturns ==
    /\ app_running /\ hist_worker.phase = "executing"
    /\ hist_worker' = [hist_worker EXCEPT !.phase = "returned"]
    /\ UNCHANGED <<app_vars, inspector_vars, app_running, monitor_vars, login_user, _history_window, hist_timer,
                   hist_orphans, hist_last_manual_refresh, hist_rows, hist_status>>

\* get_sacct ends in the thread of a cancelled worker
HistoryOrphanReturns ==
    /\ hist_orphans > 0
    /\ hist_orphans' = hist_orphans - 1
    /\ UNCHANGED <<app_vars, inspector_vars, app_running, monitor_vars, login_user, _history_window, hist_timer,
                   hist_worker, hist_last_manual_refresh, hist_rows, hist_status>>

\* HistoryTab._fetch resumes after its await: _update_table and the status
\* line, or the exception of get_sacct, which leaves the worker and ends the app.
HistoryFetchApplied ==
    /\ app_running /\ hist_worker.phase = "returned"
    /\ hist_worker' = NoWorker
    /\ \E proc \in ProcKinds, lines \in SacctOutputs :
          LET got == get_sacct(login_user, hist_worker.arg, proc, lines)
          IN IF got.raised
             THEN /\ app_running' = FALSE
                  /\ UNCHANGED <<hist_rows, hist_status>>
             ELSE /\ hist_rows' = got.rows
                  /\ hist_status' = [loading |-> FALSE, count |-> Len(got.rows),
                                      window |-> hist_worker.arg]
                  /\ UNCHANGED app_running
    /\ UNCHANGED <<app_vars, inspector_vars, monitor_vars, login_user, _history_window, hist_timer, hist_orphans,
                   hist_last_manual_refresh>>

\* ----------------------------------------------------------- InspectorTab
\* str.split(sep)
RECURSIVE Split(_, _)
Split(s, sep) ==
    LET at == {i \in 1..Len(s) : s[i] = sep}
    IN IF at = {} THEN <<s>>
       ELSE LET i == CHOOSE k \in at : \A m \in at : k <= m
            IN <<SubSeq(s, 1, i - 1)>> \o Split(SubSeq(s, i + 1, Len(s)), sep)

\* The texts int() and float() accept among the texts of the model: runs of
\* decimal digits.
IsNumber(s) == s # <<>> /\ \A i \in 1..Len(s) : s[i] \in SeqToSet(Digits)

RECURSIVE NumberOf(_)
NumberOf(s) ==
    IF s = <<>> THEN 0
    ELSE NumberOf(SubSeq(s, 1, Len(s) - 1)) * 10
         + ((CHOOSE d \in 1..10 : Digits[d] = s[Len(s)]) - 1)

\* int(text) and float(text) on the texts of the model: blanks around and a
\* sign are accepted; Accepts says whether the call returns, Value what it
\* returns
IntAccepts(text) ==
    LET t == Strip(text)
    IN IF t # <<>> /\ t[1] \in {"+", "-"} THEN IsNumber(Tail(t)) ELSE IsNumber(t)

IntValue(text) ==
    LET t == Strip(text)
    IN IF t[1] = "-" THEN 0 - NumberOf(Tail(t))
       ELSE IF t[1] = "+" THEN NumberOf(Tail(t))
       ELSE NumberOf(t)

Min(a, b) == IF a < b THEN a ELSE b

\* _JOB_ID_RE.match: digits, optionally followed by "_" and digits
JobIdBody(s) ==
    LET parts == Split(s, "_")
    IN Len(parts) \in {1, 2} /\ \A i \in 1..Len(parts) : IsNumber(parts[i])

\* re.match with a pattern that ends in $ accepts the whole text, or the
\* text up to a newline that ends it: the texts the body may match
UpToNewline(s) ==
    {s} \cup (IF s # <<>> /\ s[Len(s)] = "\n" THEN {SubSeq(s, 1, Len(s) - 1)} ELSE {})

_JOB_ID_RE(s) == \E t \in UpToNewline(s) : JobIdBody(t)

\* _validate_job_id: TRUE when it returns, FALSE when it raises ValueError
_validate_job_id(job_id) == _JOB_ID_RE(Strip(job_id))

METRICS_ROLLING_WINDOW == 60
MEMORY_FALLBACK_MB == 64000

\* _parse_rss_to_pct, in whole percent (rounded down); sizes are held in KB.
_parse_rss_to_pct(rss_str, total_mb) ==
    LET text == Strip(rss_str)
        last == IF text = <<>> THEN "" ELSE text[Len(text)]
        unit == last \in {"G", "M", "K"}
        digits == IF unit THEN SubSeq(text, 1, Len(text) - 1) ELSE text
        kb == CASE last = "G" -> IntValue(digits) * 1024 * 1024
                [] last = "M" -> IntValue(digits) * 1024
                [] last = "K" -> IntValue(digits)
                [] OTHER -> IntValue(digits) \div 1024
    IN IF rss_str = <<>> \/ total_mb <= 0 THEN 0
       ELSE IF ~IntAccepts(digits) THEN 0
       ELSE Min(100, (kb * 100) \div (total_mb * 1024))

\* _parse_duration_to_seconds for [DD-[HH:]]MM:SS
_parse_duration_to_seconds(duration) ==
    LET text == Strip(duration)
        dash == Contains(<<"-">>, text)
        cut == IF dash THEN CHOOSE i \in 1..Len(text) :
                              text[i] = "-" /\ \A k \in 1..(i - 1) : text[k] # "-"
               ELSE 0
        day_part == SubSeq(text, 1, cut - 1)
        rest == SubSeq(text, cut + 1, Len(text))
        parts == Split(rest, ":")
        days == IF dash THEN IntValue(day_part) ELSE 0
    IN IF duration = <<>> THEN 0
       ELSE IF dash /\ ~IntAccepts(day_part) THEN 0
       ELSE IF Len(parts) \notin {2, 3} THEN 0
       ELSE IF \E i \in 1..Len(parts) : ~IntAccepts(parts[i]) THEN 0
       ELSE IF Len(parts) = 3
       THEN days * 86400 + IntValue(parts[1]) * 3600 + IntValue(parts[2]) * 60
            + IntValue(parts[3])
       ELSE days * 86400 + IntValue(parts[1]) * 60 + IntValue(parts[2])

\* A variant without the cap at 100
_parse_cpu_pct_Uncapped(cpu_str, elapsed_seconds) ==
    LET text == Strip(cpu_str)
        cpu_seconds == _parse_duration_to_seconds(text)
    IN IF cpu_str = <<>> THEN 0
       ELSE IF text # <<>> /\ text[Len(text)] = "%"
       THEN IF IntAccepts(SubSeq(text, 1, Len(text) - 1))
            THEN IntValue(SubSeq(text, 1, Len(text) - 1))
            ELSE 0
       ELSE IF cpu_seconds > 0 /\ elapsed_seconds > 0
       THEN (cpu_seconds * 100) \div elapsed_seconds
       ELSE 0

\* _parse_cpu_pct, in whole percent (rounded down)
_parse_cpu_pct(cpu_str, elapsed_seconds) ==
    LET text == Strip(cpu_str)
        cpu_seconds == _parse_duration_to_seconds(text)
    IN IF cpu_str = <<>> THEN 0
       ELSE IF text # <<>> /\ text[Len(text)] = "%"
       THEN IF IntAccepts(SubSeq(text, 1, Len(text) - 1))
            THEN Min(100, IntValue(SubSeq(text, 1, Len(text) - 1)))
            ELSE 0
       ELSE IF cpu_seconds > 0 /\ elapsed_seconds > 0
       THEN Min(100, (cpu_seconds * 100) \div elapsed_seconds)
       ELSE 0

\* The entry of one job in `scontrol show job --json`, as far as the
\* inspector reads it; NoDetails is the empty dict.
NoDetails ==
    [found |-> FALSE, name |-> <<>>, job_state |-> JStr(<<>>), time_limit |-> 0,
     run_time |-> 0, minimum_memory_per_node |-> 0, standard_output |-> "",
     standard_error |-> "", slurmterm_metrics |-> <<>>]

Details(name, job_state, time_limit, run_time, out, err, mock) ==
    [found |-> TRUE, name |-> name, job_state |-> job_state, time_limit |-> time_limit,
     run_time |-> run_time, minimum_memory_per_node |-> 0, standard_output |-> out,
     standard_error |-> err, slurmterm_metrics |-> mock]

\* The metrics the simulator attaches to a job (cpu, mem, gpu)
MockMetrics == <<<<10, 20>>, <<30>>, <<0>>>>

\* What scontrol can report about a job
JobDetails ==
    { Details(<<"a">>, JStr(S_RUNNING), 1, 30, "/o", "/e", <<>>),
      Details(<<"a">>, JStr(S_RUNNING), 1, 90, "/o", "", <<>>),
      Details(<<"a">>, JList(<<S_RUNNING>>), 0, 30, "", "", <<>>),
      Details(<<"a">>, JStr(S_COMPLETED), 1, 60, "/o", "/e", <<>>),
      Details(<<"b">>, JStr(S_RUNNING), 1, 30, "/o", "/e", MockMetrics) }

\* SlurmController.get_job_details on one run of scontrol: the dict it
\* returns, or the exception that leaves it (ValueError of _validate_job_id,
\* whatever _run lets through, data.get on a JSON value that is no object).
get_job_details(job_id, proc, out, details) ==
    IF ~_validate_job_id(job_id) THEN [raised |-> TRUE, details |-> NoDetails]
    ELSE IF _run(proc).raised THEN [raised |-> TRUE, details |-> NoDetails]
    ELSE IF _run(proc).returncode # 0 THEN [raised |-> FALSE, details |-> NoDetails]
    ELSE IF out = "not_json" THEN [raised |-> FALSE, details |-> NoDetails]
    ELSE IF out = "json_not_object" THEN [raised |-> TRUE, details |-> NoDetails]
    ELSE [raised |-> FALSE, details |-> details]

\* Every outcome of one get_job_details call when scontrol reports one of `jobs`
DetailFetchesOver(job_id, jobs) ==
    {get_job_details(job_id, p, o, NoDetails) :
        p \in ProcKinds, o \in StdoutKinds \ {"jobs_object"}}
    \cup {get_job_details(job_id, "exit0", "jobs_object", d) : d \in jobs \cup {NoDetails}}

\* One run of sstat: what subprocess.run does, and the lines printed, each
\* split at "|"
SstatRun(proc, lines) == [proc |-> proc, lines |-> lines]

NoSstat == [found |-> FALSE, avg_cpu |-> <<>>, max_rss |-> <<>>]

\* What the two runs of sstat (bare id, id.batch) can do
SstatRuns ==
    { <<SstatRun("nonzero", <<>>), SstatRun("timeout", <<>>)>>,
      <<SstatRun("exit0", <<<<<<>>, <<" ">>, <<>>>>>>),
        SstatRun("exit0", <<<<<<"0", "0", ":", "1", "5">>, <<"3", "2", "0", "0", "M">>, <<>>>>>>)>>,
      <<SstatRun("exit0", <<<<<<"5", "0", "%">>, <<" ", "1", "G">>, <<>>>>>>),
        SstatRun("exit0", <<>>)>>,
      <<SstatRun("nonzero", <<>>), SstatRun("os_error", <<>>)>> }

\* SlurmController.get_sstat: the first line with three fields, one of them
\* not blank, of the first run that exits with 0
get_sstat(job_id, runs) ==
    LET Usable(line) ==
            Len(line) >= 3 /\ \E k \in 1..3 : Strip(line[k]) # <<>>
        Good(r) == _run(runs[r].proc).returncode = 0 /\ ~_run(runs[r].proc).raised
                   /\ \E i \in 1..Len(runs[r].lines) : Usable(runs[r].lines[i])
        Raises(r) == _run(runs[r].proc).raised
        FirstLine(r) ==
            LET i == CHOOSE k \in 1..Len(runs[r].lines) :
                        /\ Usable(runs[r].lines[k])
                        /\ \A m \in 1..(k - 1) : ~Usable(runs[r].lines[m])
            IN [found |-> TRUE, avg_cpu |-> Strip(runs[r].lines[i][1]),
                max_rss |-> Strip(runs[r].lines[i][2])]
    IN IF ~_validate_job_id(job_id) THEN [raised |-> TRUE, sstat |-> NoSstat]
       ELSE IF Raises(1) THEN [raised |-> TRUE, sstat |-> NoSstat]
       ELSE IF Good(1) THEN [raised |-> FALSE, sstat |-> FirstLine(1)]
       ELSE IF Raises(2) THEN [raised |-> TRUE, sstat |-> NoSstat]
       ELSE IF Good(2) THEN [raised |-> FALSE, sstat |-> FirstLine(2)]
       ELSE [raised |-> FALSE, sstat |-> NoSstat]

\* None, as the value of a job id attribute
None == <<"None">>

\* bool(job_id) for a job id attribute
Truthy(job_id) == job_id # None /\ job_id # <<>>

\* The job ids a row of the Monitor or the History table can carry to
\* inspect_job: sacct names a pending array as 5_[1].
InspectIds == {<<"1">>, <<"2">>, <<"5", "_", "[", "1", "]">>}

\* A log file as _tail_file meets it: its size in bytes at the fstat and the
\* offsets of its newline bytes
File(size, newlines) == [size |-> size, newlines |-> newlines]

NoFile == File(0, {})

\* A text handed to _append_log: the skip marker names upto - from bytes, the
\* initial content is the bytes from..upto-1 of the file, a followed line has
\* its number in both
Chunk(kind, from, upto) == [kind |-> kind, from |-> from, upto |-> upto]

NoChunk == Chunk("", 0, 0)

\* A worker of group "log-tail" and the thread of _tail_file it runs: where
\* the thread is, the generation it was started with, the file it has open
\* and the offset of its next read, the exception it met, the chunks it has
\* handed over and those of them _append_log has written
NoTailer ==
    [pc |-> "absent", gen |-> 0, cancelled |-> FALSE, chunk |-> NoChunk, resume |-> "",
     lines |-> 0, file |-> NoFile, pos |-> 0, failure |-> "", emitted |-> <<>>,
     applied |-> <<>>]

Placeholder == [kind |-> "placeholder", name |-> <<>>, state |-> <<>>, job_id |-> None]

InspectorInit ==
    /\ _mounted = FALSE
    /\ _pending_job_id = None
    /\ _current_job_id = None
    /\ _poll_timer = FALSE
    /\ insp_worker = NoWorker
    /\ insp_orphans = 0
    /\ header = Placeholder
    /\ progress = [total |-> 0, progress |-> 0]   \* ProgressBar(): no total (0 here)
    /\ charts = <<<<>>, <<>>, <<>>>>
    /\ _cpu_history = <<>>
    /\ _mem_history = <<>>
    /\ _gpu_history = <<>>
    /\ _tailing = FALSE
    /\ _tail_gen = 0
    /\ _log_mode = "stdout"
    /\ _stdout_path = ""
    /\ _stderr_path = ""
    /\ log_view = <<>>
    /\ tailers = [s \in 1..MaxGen |-> NoTailer]

\* str() of a job_state value
StateText(job_state) ==
    IF job_state.kind = "list"
    THEN <<"[", "'">> \o job_state.value[1] \o <<"'", "]">>
    ELSE job_state.value

\* InspectorTab._render_header
_render_header(details, job_id) ==
    [kind |-> "job", name |-> details.name, state |-> StateText(details.job_state),
     job_id |-> job_id]

\* The part of _update_metrics that asks sstat: no simulator metrics, a
\* RUNNING job and a current job id
AsksSstat(details, job_id) ==
    /\ details.slurmterm_metrics = <<>>
    /\ Upper(StateText(details.job_state)) = S_RUNNING
    /\ Truthy(job_id)

\* A variant that makes room by evicting the newest of the old samples
AppendWindow_EvictNewest(hist, value) ==
    LET longer == Append(hist, value)
    IN IF Len(longer) > METRICS_ROLLING_WINDOW
       THEN Append(SubSeq(hist, 1, METRICS_ROLLING_WINDOW - 1), value)
       ELSE longer

\* list.append and the trimming loop of the rolling window
AppendWindow(hist, value) ==
    LET longer == Append(hist, value)
    IN IF Len(longer) > METRICS_ROLLING_WINDOW
       THEN SubSeq(longer, Len(longer) - METRICS_ROLLING_WINDOW + 1, Len(longer))
       ELSE longer

\* InspectorTab._update_metrics with what get_sstat returned: the progress
\* bar, the charts and the windows it leaves behind. GPU monitoring is off
\* (the default of the configuration), so the GPU sample is 0.
_update_metrics(details, job_id, sstat, m) ==
    LET total_time == details.time_limit * 60
        run_time == details.run_time
        prog == IF total_time > 0
                THEN [total |-> total_time, progress |-> Min(run_time, total_time)]
                ELSE m.progress
        total_mem_mb == IF details.minimum_memory_per_node <= 0 THEN MEMORY_FALLBACK_MB
                        ELSE details.minimum_memory_per_node
        cpu == AppendWindow(m.cpu, _parse_cpu_pct(sstat.avg_cpu, run_time))
        mem == AppendWindow(m.mem, _parse_rss_to_pct(sstat.max_rss, total_mem_mb))
        gpu == AppendWindow(m.gpu, 0)
    IN IF details.slurmterm_metrics # <<>>
       THEN [m EXCEPT !.progress = prog, !.charts = details.slurmterm_metrics]
       ELSE IF ~AsksSstat(details, job_id) \/ ~sstat.found
       THEN [m EXCEPT !.progress = prog]
       ELSE [progress |-> prog, charts |-> <<cpu, mem, gpu>>,
             cpu |-> cpu, mem |-> mem, gpu |-> gpu]

Metrics == [progress |-> progress, charts |-> charts, cpu |-> _cpu_history,
            mem |-> _mem_history, gpu |-> _gpu_history]

SetMetrics(m) ==
    /\ progress' = m.progress
    /\ charts' = m.charts
    /\ _cpu_history' = m.cpu
    /\ _mem_history' = m.mem
    /\ _gpu_history' = m.gpu

\* The workers started so far
Started == {s \in 1..MaxGen : tailers[s].pc # "absent"}

\* run_worker(..., exclusive=True, group="log-tail", thread=True): the workers
\* of the group are cancelled (one that has not started never runs, one that
\* runs goes on with its cancelled flag set) and a new one is queued for
\* _tail_file(path, gen).
StartTailer(gen) ==
    [s \in 1..MaxGen |->
        IF s = Cardinality(Started) + 1 THEN [NoTailer EXCEPT !.pc = "pending", !.gen = gen]
        ELSE IF tailers[s].pc \in {"absent", "done", "raised"} THEN tailers[s]
        ELSE IF tailers[s].pc = "pending" THEN [tailers[s] EXCEPT !.pc = "done"]
        ELSE [tailers[s] EXCEPT !.cancelled = TRUE]]

\* A write of `kind` into #inspector-logs that generation `gen` produced
LogEntry(gen, kind) == [gen |-> gen, kind |-> kind]

\* A variant that starts the next tail under the generation of the last one
NextGen_Same(gen) == gen

\* self._tail_gen += 1
NextGen(gen) == gen + 1

\* InspectorTab._start_log_tail
_start_log_tail(details) ==
    /\ _stdout_path' = details.standard_output
    /\ _stderr_path' = details.standard_error
    /\ _log_mode' = "stdout"
    /\ _tailing' = FALSE
    /\ _tail_gen' = NextGen(_tail_gen)
    /\ IF details.standard_output # ""
       THEN /\ log_view' = <<LogEntry(_tail_gen', "banner")>>
            /\ tailers' = StartTailer(_tail_gen')
       ELSE /\ log_view' = <<LogEntry(_tail_gen', "no_file")>>
            /\ UNCHANGED tailers

\* A variant that sets the poll timer for the job it did not find
NotFound_KeepsPolling(job_id) ==
    /\ header' = [kind |-> "error", name |-> <<>>, state |-> <<>>, job_id |-> job_id]
    /\ _poll_timer' = TRUE
    /\ _tailing' = FALSE
    /\ UNCHANGED <<app_running, _tail_gen, _log_mode, _stdout_path, _stderr_path, log_view,
                   tailers>>

\* load_job when get_job_details returned {} (after _stop_polling): the
\* header holds the error text, #inspector-tabs is hidden, the status says
\* "Failed to load job"; no timer is set and no tail is started
NotFound(job_id) ==
    /\ header' = [kind |-> "error", name |-> <<>>, state |-> <<>>, job_id |-> job_id]
    /\ _poll_timer' = FALSE
    /\ _tailing' = FALSE
    /\ UNCHANGED <<app_running, _tail_gen, _log_mode, _stdout_path, _stderr_path, log_view,
                   tailers>>

\* InspectorTab.load_job once the tab is mounted. An exception of
\* get_job_details or of get_sstat leaves the handler and ends the app.
load_job(job_id, jobs) ==
    /\ _tail_gen < MaxGen /\ Cardinality(Started) < MaxGen
    /\ _current_job_id' = job_id
    /\ \E got \in DetailFetchesOver(job_id, jobs), runs \in SstatRuns :
         LET sstat == get_sstat(job_id, runs)
             cleared == [Metrics EXCEPT !.cpu = <<>>, !.mem = <<>>, !.gpu = <<>>]
         IN IF got.raised
            THEN /\ app_running' = FALSE
                 /\ _poll_timer' = FALSE
                 /\ _tailing' = FALSE
                 /\ SetMetrics(cleared)
                 /\ UNCHANGED <<header, _tail_gen, _log_mode, _stdout_path, _stderr_path,
                                log_view, tailers>>
            ELSE IF ~got.details.found
            THEN /\ NotFound(job_id)
                 /\ SetMetrics(cleared)
            ELSE /\ header' = _render_header(got.details, job_id)
                 /\ _start_log_tail(got.details)
                 /\ IF AsksSstat(got.details, job_id) /\ sstat.raised
                    THEN /\ app_running' = FALSE
                         /\ _poll_timer' = FALSE
                         /\ SetMetrics([cleared EXCEPT !.progress =
                               _update_metrics(got.details, job_id, NoSstat, cleared).progress])
                    ELSE /\ UNCHANGED app_running
                         /\ _poll_timer' = TRUE
                         /\ SetMetrics(_update_metrics(got.details, job_id, sstat.sstat,
                                                       cleared))
    /\ UNCHANGED <<insp_worker, insp_orphans>>

\* InspectorTab.on_mount
InspectorOnMount(jobs) ==
    /\ app_running /\ ~_mounted
    /\ _mounted' = TRUE
    /\ IF Truthy(_pending_job_id)
       THEN /\ _pending_job_id' = None
            /\ load_job(_pending_job_id, jobs)
       ELSE UNCHANGED <<app_running, _pending_job_id, _current_job_id, _poll_timer,
                        insp_worker, insp_orphans, header, metric_vars, tail_vars>>
    /\ UNCHANGED <<app_vars, monitor_vars, history_vars>>

\* App.inspect_job: InspectorTab.load_job for the job of the row
InspectJob(ids, jobs) ==
    /\ app_running
    /\ \E job_id \in ids :
         IF ~_mounted
         THEN /\ _pending_job_id' = job_id
              /\ UNCHANGED <<app_running, _mounted, _current_job_id, _poll_timer,
                             insp_worker, insp_orphans, header, metric_vars, tail_vars>>
         ELSE /\ load_job(job_id, jobs)
              /\ UNCHANGED <<_mounted, _pending_job_id>>
    /\ UNCHANGED <<app_vars, monitor_vars, history_vars>>

\* InspectorTab.action_back_to_monitor: _stop_polling, then the tab switch
ActionBackToMonitor ==
    /\ app_running /\ _mounted
    /\ _poll_timer' = FALSE
    /\ _tailing' = FALSE
    /\ UNCHANGED <<app_running, app_vars, monitor_vars, history_vars, _mounted, _pending_job_id,
                   _current_job_id, insp_worker, insp_orphans, header, metric_vars,
                   _tail_gen, _log_mode, _stdout_path, _stderr_path, log_view, tailers>>

\* InspectorTab._poll_refresh, called by the timer of load_job
InspectorIntervalTick ==
    /\ app_running /\ _poll_timer
    /\ Len(_cpu_history) < MaxSamples
    /\ IF ~Truthy(_current_job_id)
       THEN UNCHANGED <<insp_worker, insp_orphans>>
       ELSE /\ insp_worker.phase = "executing" => insp_orphans < MaxOrphans
            /\ insp_orphans' = IF insp_worker.phase = "executing" THEN insp_orphans + 1
                               ELSE insp_orphans
            /\ insp_worker' = [phase |-> "pending", arg |-> <<>>]
    /\ UNCHANGED <<app_running, app_vars, monitor_vars, history_vars, _mounted, _pending_job_id,
                   _current_job_id, _poll_timer, header, metric_vars, tail_vars>>

\* InspectorTab._async_poll_refresh runs up to its await: it reads the job id
\* and hands get_job_details to the executor.
InspectorWorkerStarts ==
    /\ app_running /\ insp_worker.phase = "pending"
    /\ insp_worker' = IF Truthy(_current_job_id)
                      THEN [phase |-> "executing", arg |-> _current_job_id]
                      ELSE NoWorker
    /\ UNCHANGED <<app_running, app_vars, monitor_vars, history_vars, _mounted, _pending_job_id,
                   _current_job_id, _poll_timer, insp_orphans, header, metric_vars,
                   tail_vars>>

\* get_job_details ends in the executor thread of the live worker
InspectorFetchReturns ==
    /\ app_running /\ insp_worker.phase = "executing"
    /\ insp_worker' = [insp_worker EXCEPT !.phase = "returned"]
    /\ UNCHANGED <<app_running, app_vars, monitor_vars, history_vars, _mounted, _pending_job_id,
                   _current_job_id, _poll_timer, insp_orphans, header, metric_vars,
                   tail_vars>>

\* get_job_details ends in the thread of a cancelled worker
InspectorOrphanReturns ==
    /\ insp_orphans > 0
    /\ insp_orphans' = insp_orphans - 1
    /\ UNCHANGED <<app_running, app_vars, monitor_vars, history_vars, _mounted, _pending_job_id,
                   _current_job_id, _poll_timer, insp_worker, header, metric_vars,
                   tail_vars>>

\* InspectorTab._async_poll_refresh resumes after its await: nothing for an
\* empty dict, else _render_header and _update_metrics with the job id of
\* this moment. An exception of get_job_details or of get_sstat leaves the
\* worker and ends the app.
InspectorFetchApplied(jobs) ==
    /\ app_running /\ insp_worker.phase = "returned"
    /\ insp_worker' = NoWorker
    /\ \E got \in DetailFetchesOver(insp_worker.arg, jobs), runs \in SstatRuns :
         LET sstat == get_sstat(_current_job_id, runs)
         IN IF got.raised
            THEN /\ app_running' = FALSE
                 /\ UNCHANGED <<header, metric_vars>>
            ELSE IF ~got.details.found
            THEN UNCHANGED <<app_running, header, metric_vars>>
            ELSE /\ header' = _render_header(got.details, _current_job_id)
                 /\ IF AsksSstat(got.details, _current_job_id) /\ sstat.raised
                    THEN /\ app_running' = FALSE
                         /\ SetMetrics([Metrics EXCEPT !.progress =
                               _update_metrics(got.details, _current_job_id, NoSstat,
                                               Metrics).progress])
                    ELSE /\ UNCHANGED app_running
                         /\ SetMetrics(_update_metrics(got.details, _current_job_id,
                                                       sstat.sstat, Metrics))
    /\ UNCHANGED <<app_vars, monitor_vars, history_vars, _mounted, _pending_job_id, _current_job_id,
                   _poll_timer, insp_orphans, tail_vars>>

\* A job that stays RUNNING on a node with 100 MB, without log files
SteadyJobs ==
    {[Details(<<"a">>, JStr(S_RUNNING), 0, 30, "", "", <<>>)
         EXCEPT !.minimum_memory_per_node = 100]}

\* A run of sstat that reports one percent of CPU and one MB more than the
\* last sample of the window shows
RisingSstat(hist) ==
    LET n == IF hist = <<>> THEN 1 ELSE hist[Len(hist)] + 1
    IN <<SstatRun("exit0", <<<<Str(n) \o <<"%">>, Str(n) \o <<"M">>, <<>>>>>>),
         SstatRun("exit0", <<>>)>>

\* One poll of the inspector from tick to application, for a job of `jobs`
\* whose usage rises: _render_header and _update_metrics of
\* _async_poll_refresh with the reading of RisingSstat
MetricsSampleApplied(jobs) ==
    /\ app_running /\ _poll_timer /\ Truthy(_current_job_id)
    /\ insp_worker.phase = "none"
    /\ \E details \in jobs :
         /\ header' = _render_header(details, _current_job_id)
         /\ SetMetrics(_update_metrics(details, _current_job_id,
                          get_sstat(_current_job_id, RisingSstat(_mem_history)).sstat,
                          Metrics))
    /\ UNCHANGED <<app_running, app_vars, monitor_vars, history_vars, _mounted,
                   _pending_job_id, _current_job_id, _poll_timer, insp_worker,
                   insp_orphans, tail_vars>>

\* InspectorTab.action_toggle_log_stream
ActionToggleLogStream ==
    /\ app_running /\ _mounted
    /\ _tail_gen < MaxGen /\ Cardinality(Started) < MaxGen
    /\ LET to_stderr == _log_mode = "stdout" /\ _stderr_path # ""
           to_stdout == _log_mode = "stderr" /\ _stdout_path # ""
       IN IF to_stderr \/ to_stdout
          THEN /\ _log_mode' = IF to_stderr THEN "stderr" ELSE "stdout"
               /\ _tailing' = FALSE
               /\ _tail_gen' = NextGen(_tail_gen)
               /\ log_view' = <<LogEntry(_tail_gen', "banner")>>
               /\ tailers' = StartTailer(_tail_gen')
          ELSE UNCHANGED <<_log_mode, log_view, _tailing, _tail_gen, tailers>>
    /\ UNCHANGED <<app_running, app_vars, monitor_vars, history_vars, _mounted, _pending_job_id,
                   _current_job_id, _poll_timer, insp_worker, insp_orphans, header,
                   metric_vars, _stdout_path, _stderr_path>>

\* A variant that posts the chunk and does not wait for the UI thread
Hand_NoWait(tailer, chunk, resume) ==
    [tailer EXCEPT !.pc = resume, !.emitted = Append(@, chunk)]

\* The tailer thread hands a chunk to call_from_thread and waits until the
\* UI thread has run _append_log; it goes on at `resume`.
Hand(tailer, chunk, resume) ==
    [tailer EXCEPT !.pc = "waiting", !.chunk = chunk, !.resume = resume,
                   !.emitted = Append(@, chunk)]

\* An exception leaves _tail_file: the thread ends and the worker fails
Raise(tailer, failure) == [tailer EXCEPT !.pc = "raised", !.failure = failure]

TailerUnchanged ==
    UNCHANGED <<app_vars, monitor_vars, history_vars, _mounted, _pending_job_id,
                _current_job_id, _poll_timer, insp_worker, insp_orphans, header,
                metric_vars, _tail_gen, _log_mode, _stdout_path, _stderr_path>>

\* _tail_file starts in its thread: it sets _tailing and opens the file.
\* FileNotFoundError and PermissionError are caught and reported; another
\* OSError of open (a directory, a stale handle) leaves the worker and ends
\* the app.
TailerOpens(s, opens, files) ==
    /\ app_running /\ tailers[s].pc = "pending"
    /\ _tailing' = TRUE
    /\ \E opened \in opens, f \in files :
         /\ tailers' = [tailers EXCEPT ![s] =
                          CASE opened = "ok" -> [@ EXCEPT !.pc = "opened", !.file = f]
                            [] opened = "os_error" -> Raise(@, opened)
                            [] OTHER -> Hand([@ EXCEPT !.failure = opened],
                                             Chunk(opened, 0, 0), "done")]
         /\ app_running' = (opened # "os_error")
    /\ UNCHANGED log_view
    /\ TailerUnchanged

\* Max bytes to read on initial log load
_MAX_INITIAL_READ == 1048576

\* A variant of the readline after the seek that discards nothing
ReadlineFrom_Nothing(file, offset) == offset

\* f.seek(offset); f.readline(): the offset after the first newline at or
\* after `offset`, the end of the file when there is none
ReadlineFrom(file, offset) ==
    LET ends == {n \in file.newlines : n >= offset}
    IN IF ends = {} THEN file.size
       ELSE (CHOOSE n \in ends : \A m \in ends : n <= m) + 1

\* _tail_file looks at the size: a file over _MAX_INITIAL_READ is entered
\* near its end, the rest of the line there is dropped and the skip marker
\* goes to the view. An OSError of fstat is passed over.
TailerSeeks(s, stats) ==
    /\ app_running /\ tailers[s].pc = "opened"
    /\ \E stat \in stats :
         LET size == tailers[s].file.size
         IN tailers' = [tailers EXCEPT ![s] =
                          IF stat = "os_error"
                          THEN [@ EXCEPT !.pc = "content", !.failure = "fstat_os_error"]
                          ELSE IF size > _MAX_INITIAL_READ
                          THEN Hand([@ EXCEPT !.pos = ReadlineFrom(tailers[s].file,
                                                        size - _MAX_INITIAL_READ)],
                                    Chunk("skipped", 0, size - _MAX_INITIAL_READ),
                                    "content")
                          ELSE [@ EXCEPT !.pc = "content"]]
    /\ UNCHANGED <<app_running, _tailing, log_view>>
    /\ TailerUnchanged

\* content = f.read(): what the file holds from the offset on goes to the
\* view when there is any; an OSError of the read leaves the worker and ends
\* the app.
TailerReadsContent(s, reads) ==
    /\ app_running /\ tailers[s].pc = "content"
    /\ \E read \in reads :
         LET t == tailers[s]
         IN /\ tailers' = [tailers EXCEPT ![s] =
                             IF read = "os_error" THEN Raise(@, "read_os_error")
                             ELSE IF t.pos >= t.file.size THEN [@ EXCEPT !.pc = "loop"]
                             ELSE Hand([@ EXCEPT !.pos = t.file.size],
                                       Chunk("content", t.pos, t.file.size), "loop")]
            /\ app_running' = (read # "os_error")
    /\ UNCHANGED <<_tailing, log_view>>
    /\ TailerUnchanged

\* A variant of the loop condition that does not look at the generation
KeepsFollowing_AnyGeneration(tailer) == ~tailer.cancelled /\ _tailing

\* while not worker.is_cancelled and self._tailing and self._tail_gen == gen
KeepsFollowing(tailer) == ~tailer.cancelled /\ _tailing /\ _tail_gen = tailer.gen

\* One turn of the follow loop of _tail_file: the loop condition, then
\* readline (a turn that finds no line sleeps and changes nothing)
TailerFollows(s) ==
    /\ app_running /\ tailers[s].pc = "loop"
    /\ IF KeepsFollowing(tailers[s])
       THEN \E read \in {"line", "os_error"} :
              /\ read = "line" => tailers[s].lines < MaxLines
              /\ tailers' = [tailers EXCEPT ![s] =
                               IF read = "line"
                               THEN Hand([@ EXCEPT !.lines = @ + 1],
                                         Chunk("line", tailers[s].lines + 1,
                                               tailers[s].lines + 1), "loop")
                               ELSE Hand([@ EXCEPT !.failure = "readline_os_error"],
                                         Chunk("inaccessible", 0, 0), "done")]
       ELSE tailers' = [tailers EXCEPT ![s].pc = "done"]
    /\ UNCHANGED <<app_running, _tailing, log_view>>
    /\ TailerUnchanged

\* InspectorTab._append_log, run by the UI thread for the chunk a tailer handed over
_append_log(s) ==
    /\ app_running /\ tailers[s].pc = "waiting"
    /\ log_view' = Append(log_view, LogEntry(tailers[s].gen, tailers[s].chunk.kind))
    /\ tailers' = [tailers EXCEPT ![s] = [@ EXCEPT !.pc = tailers[s].resume,
                                                   !.chunk = NoChunk, !.resume = "",
                                                   !.applied = Append(@, tailers[s].chunk)]]
    /\ UNCHANGED <<app_running, _tailing>>
    /\ TailerUnchanged

\* ------------------------------------------------------------ HardwareTab
\* What one run of get_sinfo and get_node_info gives _fetch: two lists (their
\* lengths are all the status line shows), or the exception _run lets through
HardwareFetches ==
    {[raised |-> FALSE, partitions |-> p, nodes |-> n] : p \in {0, 2}, n \in {0, 3}}
    \cup {[raised |-> TRUE, partitions |-> 0, nodes |-> 0]}

HardwareInit ==
    /\ hw_timer = FALSE
    /\ hw_worker = "none"
    /\ hw_orphans = 0
    /\ hw_status = [kind |-> "loading", partitions |-> 0, nodes |-> 0]
    /\ hw_refreshes = <<>>

\* HardwareTab._poll: run_worker(self._fetch, exclusive=True, group="hw-fetch")
Hardware_poll ==
    /\ hw_worker = "executing" => hw_orphans < MaxOrphans
    /\ hw_orphans' = IF hw_worker = "executing" THEN hw_orphans + 1 ELSE hw_orphans
    /\ hw_worker' = "pending"

\* HardwareTab.on_mount
HardwareOnMount ==
    /\ app_running /\ ~hw_timer
    /\ hw_timer' = TRUE
    /\ Hardware_poll
    /\ UNCHANGED <<app_running, monitor_vars, history_vars, inspector_vars, config_vars,
                   sim_job, api_call, templates_dir, toasts, hw_status, hw_refreshes>>

\* The timer of set_interval(self.poll_interval, self._poll) fires
HardwareIntervalTick ==
    /\ app_running /\ hw_timer
    /\ Hardware_poll
    /\ UNCHANGED <<app_running, monitor_vars, history_vars, inspector_vars, config_vars,
                   sim_job, api_call, templates_dir, toasts, hw_timer, hw_status, hw_refreshes>>

\* HardwareTab.action_refresh: _poll, whatever the time of the last refresh
HardwareActionRefresh ==
    /\ app_running /\ hw_timer
    /\ Len(hw_refreshes) < MaxRefreshes
    /\ Hardware_poll
    /\ hw_refreshes' = Append(hw_refreshes, now)
    /\ UNCHANGED <<app_running, monitor_vars, history_vars, inspector_vars, config_vars,
                   sim_job, api_call, templates_dir, toasts, hw_timer, hw_status>>

\* HardwareTab._fetch runs up to its await: get_sinfo and get_node_info go to
\* the executor
HardwareWorkerStarts ==
    /\ app_running /\ hw_worker = "pending"
    /\ hw_worker' = "executing"
    /\ UNCHANGED <<app_running, monitor_vars, history_vars, inspector_vars, config_vars,
                   sim_job, api_call, templates_dir, toasts, hw_timer, hw_orphans, hw_status, hw_refreshes>>

\* Both calls ended in the executor threads of the live worker
HardwareFetchReturns ==
    /\ app_running /\ hw_worker = "executing"
    /\ hw_worker' = "returned"
    /\ UNCHANGED <<app_running, monitor_vars, history_vars, inspector_vars, config_vars,
                   sim_job, api_call, templates_dir, toasts, hw_timer, hw_orphans, hw_status, hw_refreshes>>

\* Both calls ended in the threads of a cancelled worker
HardwareOrphanReturns ==
    /\ hw_orphans > 0
    /\ hw_orphans' = hw_orphans - 1
    /\ UNCHANGED <<app_running, monitor_vars, history_vars, inspector_vars, config_vars,
                   sim_job, api_call, templates_dir, toasts, hw_timer, hw_worker, hw_status, hw_refreshes>>

\* HardwareTab._fetch resumes after its await: both tables and the status
\* line, or the exception that leaves the worker and ends the app
HardwareFetchApplied ==
    /\ app_running /\ hw_worker = "returned"
    /\ hw_worker' = "none"
    /\ \E got \in HardwareFetches :
         IF got.raised
         THEN app_running' = FALSE /\ UNCHANGED hw_status
         ELSE /\ UNCHANGED app_running
              /\ hw_status' = [kind |-> IF got.partitions = 0 /\ got.nodes = 0
                                         THEN "no_data" ELSE "counts",
                               partitions |-> got.partitions, nodes |-> got.nodes]
    /\ UNCHANGED <<monitor_vars, history_vars, inspector_vars, config_vars, sim_job, api_call, templates_dir, toasts,
                   hw_timer, hw_orphans, hw_refreshes>>

\* ------------------------------------------------- configuration, simulator
\* SlurmTermConfig as its defaults construct it
ConfigDefault == notify_on_complete = FALSE /\ notify_on_fail = FALSE

\* SlurmTermConfig as a configuration file can set it
ConfigInit == notify_on_complete \in BOOLEAN /\ notify_on_fail \in BOOLEAN

\* SlurmTermApp.action_reload_config: the fields of the shared configuration
\* object take the values of the file
ActionReloadConfig ==
    /\ app_running
    /\ notify_on_complete' \in BOOLEAN
    /\ notify_on_fail' \in BOOLEAN
    /\ UNCHANGED <<app_running, monitor_vars, history_vars, inspector_vars, hardware_vars,
                   sim_job, api_call, templates_dir, toasts>>

\* max(0.0, min(100.0, v))
Clamp(v) == IF v < 0 THEN 0 ELSE IF v > 100 THEN 100 ELSE v

\* The step of the random walks of the simulator (of uniform(-5, 5) and of
\* uniform(-10, 10)) the model follows
WalkSteps == {1}

\* One history of _generate_initial_metrics: a first value and 29 steps
InitialWalk(first, step) == [i \in 1..30 |-> Clamp(first + (i - 1) * step)]

\* MockSlurmController._generate_initial_metrics, each walk from the lowest
\* value uniform(base - spread, base + spread) can give
_generate_initial_metrics(step) ==
    [cpu |-> InitialWalk(30, step), mem |-> InitialWalk(30, step),
     gpu |-> InitialWalk(15, step)]

\* The states _spawn_job draws from
SpawnStates == {"RUNNING", "PENDING", "COMPLETING"}

\* A job _spawn_job has just made
Spawned(state, step) ==
    [state |-> state, metrics |-> _generate_initial_metrics(step), age |-> 0,
     present |-> TRUE, cancelled |-> FALSE, held |-> FALSE]

SimInit ==
    \E state \in SpawnStates, step \in WalkSteps : sim_job = Spawned(state, step)

SimDefault == sim_job = Spawned("PENDING", 1)

\* The metric update of _tick for one key: append the next value of the walk,
\* then pop(0) when the history is longer than 60
WalkAppend(hist, step) ==
    LET longer == Append(hist, Clamp(hist[Len(hist)] + step))
    IN IF Len(longer) > 60 THEN Tail(longer) ELSE longer

\* The states in which _tick removes a job
SimTerminal == {"COMPLETED", "FAILED", "TIMEOUT", "CANCELLED"}

\* The states _tick can give a job that it does not skip, for every draw of
\* the random generator; age is now - born, in seconds
TickStates(job) ==
    CASE job.state = "RUNNING" ->
           {"RUNNING"}
           \cup (IF job.age > 20 THEN {"COMPLETED", "FAILED", "TIMEOUT"} ELSE {})
           \cup (IF job.age > 15 THEN {"COMPLETING"} ELSE {})
      [] job.state = "COMPLETING" -> {"COMPLETING", "COMPLETED"}
      [] job.state = "PENDING" -> {"PENDING"} \cup (IF job.age > 10 THEN {"RUNNING"} ELSE {})
      [] OTHER -> {job.state}

\* MockSlurmController._tick for the job, which ends in `state`: a job in
\* _cancelled or _held is passed over; a RUNNING one gets a sample per
\* metric; a job in a terminal state that is older than 30 s leaves _jobs
\* and _cancelled
_tick(job, state, step) ==
    IF ~job.present \/ job.cancelled \/ job.held THEN job
    ELSE [job EXCEPT !.state = state,
                     !.metrics = IF job.state = "RUNNING"
                                 THEN [k \in {"cpu", "mem", "gpu"} |->
                                          WalkAppend(job.metrics[k], step)]
                                 ELSE @,
                     !.present = ~(state \in SimTerminal /\ job.age > 30),
                     !.cancelled = IF state \in SimTerminal /\ job.age > 30 THEN FALSE ELSE @]

\* The rest of the program while the simulator works
SimUnchanged ==
    UNCHANGED <<app_running, monitor_vars, history_vars, inspector_vars, config_vars,
                hardware_vars, templates_dir, toasts>>

\* MockSlurmController._tick on a poll
SimTick ==
    /\ app_running
    /\ \E step \in WalkSteps, state \in TickStates(sim_job) :
         sim_job' = _tick(sim_job, state, step)
    /\ UNCHANGED api_call
    /\ SimUnchanged

\* ------------------------------------------------------ the API functions
\* No function of the API has been called
NoCall == [fn |-> "", args |-> <<>>, result |-> <<>>]

\* A machine on which the application never ran: no TEMPLATES_DIR
NoTemplates == [is_dir |-> FALSE, files |-> {}]

ApiInit == api_call = NoCall /\ templates_dir = NoTemplates /\ toasts = {}

\* The rest of the program while a function of the API runs
ApiUnchanged ==
    UNCHANGED <<app_running, monitor_vars, history_vars, inspector_vars, config_vars,
                hardware_vars, sim_job, templates_dir, toasts>>

\* [a-zA-Z][a-zA-Z0-9_-]*
SafeKeyBody(key) ==
    LET IsLetter(c) == \E i \in 1..26 : c = UpperLetters[i] \/ c = LowerLetters[i]
        IsDigit(c) == \E i \in 1..10 : c = Digits[i]
    IN /\ key # <<>>
       /\ IsLetter(key[1])
       /\ \A i \in 2..Len(key) : IsLetter(key[i]) \/ IsDigit(key[i]) \/ key[i] \in {"_", "-"}

_SAFE_KEY_RE(key) == \E t \in UpToNewline(key) : SafeKeyBody(t)

\* The character \x00
NUL == "NUL"

\* _validate_param_value: TRUE when it returns, FALSE when it raises ValueError
_validate_param_value(value) ==
    \A i \in 1..Len(value) : value[i] \notin {NUL, "\n", "\r"}

\* What a call gave: the exception that left it ("" for none), the command
\* it handed to subprocess.run (<<>> for none) and its return value
Outcome(raised, argv, value) == [raised |-> raised, argv |-> argv, value |-> value]

\* cancel_job, hold_job and release_job: _validate_job_id, then the command
\* on the stripped id; True for a return code of 0
JobAction(command, job_id, proc) ==
    IF ~_validate_job_id(job_id) THEN Outcome("ValueError", <<>>, FALSE)
    ELSE IF _run(proc).raised THEN Outcome("OSError", command \o <<Strip(job_id)>>, FALSE)
    ELSE Outcome("", command \o <<Strip(job_id)>>, _run(proc).returncode = 0)

cancel_job(job_id, proc) == JobAction(<<<<"s", "c", "a", "n", "c", "e", "l">>>>, job_id, proc)

hold_job(job_id, proc) ==
    JobAction(<<<<"s", "c", "o", "n", "t", "r", "o", "l">>, <<"h", "o", "l", "d">>>>, job_id, proc)

release_job(job_id, proc) ==
    JobAction(<<<<"s", "c", "o", "n", "t", "r", "o", "l">>,
                <<"r", "e", "l", "e", "a", "s", "e">>>>, job_id, proc)

\* submit_job: every key and value is validated while the command is put
\* together, then sbatch runs; the last word it printed is the job id
submit_job(script_path, params, proc, words) ==
    LET Option(pair) == <<"-", "-">> \o pair[1]
                         \o (IF pair[2] # <<>> THEN <<"=">> \o pair[2] ELSE <<>>)
        script == IF script_path # <<>> /\ script_path[1] = "-"
                  THEN <<".", "/">> \o script_path ELSE script_path
        cmd == <<<<"s", "b", "a", "t", "c", "h">>>>
               \o [i \in 1..Len(params) |-> Option(params[i])] \o <<script>>
    IN IF \E i \in 1..Len(params) :
             ~_SAFE_KEY_RE(params[i][1]) \/ ~_validate_param_value(params[i][2])
       THEN Outcome("ValueError", <<>>, <<>>)
       ELSE IF _run(proc).raised THEN Outcome("OSError", cmd, <<>>)
       ELSE IF _run(proc).returncode # 0 \/ words = <<>>
       THEN Outcome("RuntimeError", cmd, <<>>)
       ELSE Outcome("", cmd, words[Len(words)])

\* The job ids a caller can pass: plain, of an array, with blanks around,
\* and texts that are no ids
JobIdInputs ==
    { <<"1", "2">>, <<"1", "2", "3", "4", "5", "_", "1">>, <<" ", "1", "2">>,
      <<"1", "2", "\n">>, <<>>, <<"1", "_">>, <<"_", "1">>, <<"1", "_", "2", "_", "3">>,
      <<"1", "2", "a">>, <<"-", "1">>, <<"1", " ", "2">>,
      <<"r", "m", " ", "-", "r", "f", " ", "/">>, <<"$", "(", "e", "v", "i", "l", ")">> }

\* The parameters the submit form can pass: none, one, two
ParamInputs ==
    LET keys == { <<"t", "i", "m", "e">>, <<"m", "e", "m", "-", "p", "e", "r", "-", "c", "p", "u">>,
                  <<"-", "-", "i", "n", "j", "e", "c", "t", "e", "d">>, <<"a", " ", "b">>,
                  <<"t", "i", "m", "e", "\n">>, <<>>, <<"9", "x">>, <<"x", ";", "y">> }
        values == { <<"1">>, <<>>, <<"a", "\n", "b">>, <<"a", NUL>> }
        pairs == {<<k, v>> : k \in keys, v \in values}
    IN {<<>>} \cup {<<q>> : q \in pairs}
       \cup {<<<<<<"t", "i", "m", "e">>, <<"1">>>>, <<k, <<"1">>>>>> : k \in keys}

cancel_jobCalled ==
    /\ \E job_id \in JobIdInputs, proc \in ProcKinds :
          api_call' = [fn |-> "cancel_job", args |-> <<job_id, proc>>,
                       result |-> cancel_job(job_id, proc)]
    /\ ApiUnchanged

hold_jobCalled ==
    /\ \E job_id \in JobIdInputs, proc \in ProcKinds :
          api_call' = [fn |-> "hold_job", args |-> <<job_id, proc>>,
                       result |-> hold_job(job_id, proc)]
    /\ ApiUnchanged

release_jobCalled ==
    /\ \E job_id \in JobIdInputs, proc \in ProcKinds :
          api_call' = [fn |-> "release_job", args |-> <<job_id, proc>>,
                       result |-> release_job(job_id, proc)]
    /\ ApiUnchanged

submit_jobCalled ==
    /\ \E script_path \in {<<"/", "s">>, <<"-", "s">>}, params \in ParamInputs,
          proc \in ProcKinds :
        \E words \in {<<<<"j", "o", "b">>, <<"7", "7">>>>} \cup {<<>> : x \in {proc} \cap {"exit0"}} :
          api_call' = [fn |-> "submit_job", args |-> <<script_path, params, proc>>,
                       result |-> submit_job(script_path, params, proc, words)]
    /\ ApiUnchanged

\* ------------------------------------------------- the simulator's queue
\* time.monotonic() moves on by five seconds
SimClock ==
    /\ app_running
    /\ sim_job.age + 5 <= MaxAge
    /\ sim_job' = [sim_job EXCEPT !.age = @ + 5]
    /\ UNCHANGED api_call
    /\ SimUnchanged

\* MockSlurmController._to_job_info: the state the queue reports
_to_job_info(job) == IF job.held THEN "PENDING (Held)" ELSE job.state

\* MockSlurmController.get_queue: _tick, then the jobs of _jobs
MockGetQueue ==
    /\ app_running
    /\ \E step \in WalkSteps, state \in TickStates(sim_job) :
         LET job == _tick(sim_job, state, step)
         IN /\ sim_job' = job
            /\ api_call' = [fn |-> "MockSlurmController.get_queue", args |-> <<>>,
                            result |-> Outcome("", <<>>, IF job.present
                                                         THEN <<_to_job_info(job)>>
                                                         ELSE <<>>)]
    /\ SimUnchanged

\* MockSlurmController.cancel_job for the job
MockCancelJob ==
    /\ app_running
    /\ sim_job' = IF sim_job.present
                  THEN [sim_job EXCEPT !.cancelled = TRUE, !.state = "CANCELLED"]
                  ELSE sim_job
    /\ api_call' = [fn |-> "MockSlurmController.cancel_job", args |-> <<>>,
                    result |-> Outcome("", <<>>, sim_job.present)]
    /\ SimUnchanged

\* MockSlurmController.hold_job for the job
MockHoldJob ==
    /\ app_running
    /\ LET pending == sim_job.present /\ sim_job.state = "PENDING"
       IN /\ sim_job' = IF pending THEN [sim_job EXCEPT !.held = TRUE] ELSE sim_job
          /\ api_call' = [fn |-> "MockSlurmController.hold_job", args |-> <<>>,
                          result |-> Outcome("", <<>>, pending)]
    /\ SimUnchanged

\* MockSlurmController.release_job for the job
MockReleaseJob ==
    /\ app_running
    /\ sim_job' = [sim_job EXCEPT !.held = FALSE]
    /\ api_call' = [fn |-> "MockSlurmController.release_job", args |-> <<>>,
                    result |-> Outcome("", <<>>, sim_job.held)]
    /\ SimUnchanged

\* --------------------------------------------------------- the validators
\* A variant that leaves the days out
format_time_NoDays(seconds) ==
    LET rem == seconds % 86400
    IN IF seconds < 0 THEN Outcome("ValueError", <<>>, <<>>)
       ELSE Outcome("", <<>>, Pad2(rem \div 3600) \o <<":">> \o Pad2((rem % 3600) \div 60)
                                   \o <<":">> \o Pad2(rem % 60))

\* format_time: HH:MM:SS, or D-HH:MM:SS from one day on
format_time(seconds) ==
    LET days == seconds \div 86400
        rem == seconds % 86400
        clock == Pad2(rem \div 3600) \o <<":">> \o Pad2((rem % 3600) \div 60)
                 \o <<":">> \o Pad2(rem % 60)
    IN IF seconds < 0 THEN Outcome("ValueError", <<>>, <<>>)
       ELSE IF days # 0 THEN Outcome("", <<>>, Str(days) \o <<"-">> \o clock)
       ELSE Outcome("", <<>>, clock)

\* parse_time: SS, MM:SS, HH:MM:SS, each with an optional D- in front
parse_time(time_str) ==
    LET stripped == Strip(time_str)
        dash == {i \in 1..Len(stripped) : stripped[i] = "-"}
        first == CHOOSE i \in dash : \A k \in dash : i <= k
        day_part == IF dash = {} THEN <<"0">> ELSE SubSeq(stripped, 1, first - 1)
        rest == IF dash = {} THEN stripped ELSE SubSeq(stripped, first + 1, Len(stripped))
        parts == Split(rest, ":")
        n == Len(parts)
        Weight(i) == IF n - i = 2 THEN 3600 ELSE IF n - i = 1 THEN 60 ELSE 1
        RECURSIVE Sum(_)
        Sum(i) == IF i > n THEN 0 ELSE IntValue(parts[i]) * Weight(i) + Sum(i + 1)
    IN IF stripped = <<>> \/ ~IntAccepts(day_part) \/ n > 3
          \/ \E i \in 1..n : ~IntAccepts(parts[i])
       THEN Outcome("ValueError", <<>>, 0)
       ELSE Outcome("", <<>>, IntValue(day_part) * 86400 + Sum(1))

\* The largest number of whole days in a duration
MaxDays == 2

\* Durations around every carry of the clock
SecondsInputs ==
    {d * 86400 + h * 3600 + m * 60 + sec :
        d \in 0..MaxDays, h \in {0, 1, 9, 10, 23}, m \in {0, 1, 59}, sec \in {0, 1, 9, 10, 59}}
    \cup {0 - 1}

\* Time strings a form can hold that format_time does not produce
TimeInputs ==
    { <<>>, <<"9", "0">>, <<"1", ":", "3", "0">>, <<" ", "5", " ">>, <<"1", ":", "2", ":", "3", ":", "4">>,
      <<"a">>, <<"-", "5">>, <<"1", "-", "2", "-", "3">>, <<"1", ":", ":", "2">> }

format_timeCalled ==
    /\ \E seconds \in SecondsInputs :
          api_call' = [fn |-> "format_time", args |-> <<seconds>>,
                       result |-> format_time(seconds)]
    /\ ApiUnchanged

\* parse_time on a string typed in, or on the one format_time just gave
parse_timeCalled ==
    /\ \E time_str \in TimeInputs \cup {api_call.result.value : x \in {api_call.fn} \cap {"format_time"}} :
          api_call' = [fn |-> "parse_time", args |-> <<time_str>>,
                       result |-> parse_time(time_str)]
    /\ ApiUnchanged

\* ------------------------------------------------- the metric conversions
\* The average _update_metrics takes of what get_gpu_utilization returned
\* (whole percent); 0 for an empty list
gpu_val(gpu_vals) ==
    LET RECURSIVE Sum(_)
        Sum(i) == IF i > Len(gpu_vals) THEN 0 ELSE gpu_vals[i] + Sum(i + 1)
    IN IF gpu_vals = <<>> THEN 0 ELSE Sum(1) \div Len(gpu_vals)

\* MaxRSS strings: sizes with each suffix and without, blanks, no number, a
\* sign
RssInputs ==
    { <<>>, <<"1", "6", "M">>, <<"6", "4", "M">>, <<"5", "G">>, <<"5", "1", "2", "K">>,
      <<"1", "0", "4", "8", "5", "7", "6">>, <<" ", "5", "G", " ">>, <<"M">>, <<"a", "b", "c">>,
      <<"0", "M">>, <<"-", "1", "G">>, <<"+", "8", "M">> }

\* CPU times sstat reports, in seconds
CpuSeconds == {0, 1, 30, 59, 60, 90, 3599, 3600, 3661, 86399, 86400, 90061}

\* AveCPU strings: HH:MM:SS and D-HH:MM:SS of the CPU times, MM:SS, a
\* percentage, and texts that are no duration
CpuInputs ==
    {format_time(cpu).value : cpu \in CpuSeconds}
    \cup { <<"0", "0", ":", "3", "0">>, <<"0", "1", ":", "3", "0">>, <<"8", "5", "%">>,
           <<"1", "5", "0", "%">>, <<"-", "5", "0", "%">>, <<"%">> }
    \cup { <<>>, <<"3", "0">>, <<"a">>, <<"1", ":", "2", ":", "3", ":", "4">>, <<"x", ":", "y">>,
           <<"a", "-", "0", "0", ":", "0", "1">>, <<":">> }

_parse_rss_to_pctCalled ==
    /\ \E rss_str \in RssInputs, total_mb \in {0 - 1, 0, 8, 32, 64000} :
          api_call' = [fn |-> "_parse_rss_to_pct", args |-> <<rss_str, total_mb>>,
                       result |-> Outcome("", <<>>, _parse_rss_to_pct(rss_str, total_mb))]
    /\ ApiUnchanged

_parse_cpu_pctCalled ==
    /\ \E cpu_str \in CpuInputs, elapsed_seconds \in {0, 1, 60, 100, 3600, 100000} :
          api_call' = [fn |-> "_parse_cpu_pct", args |-> <<cpu_str, elapsed_seconds>>,
                       result |-> Outcome("", <<>>, _parse_cpu_pct(cpu_str, elapsed_seconds))]
    /\ ApiUnchanged

\* The GPU sample of _update_metrics from the lines nvidia-smi printed
gpu_valCalled ==
    /\ \E gpu_vals \in {<<>>, <<0>>, <<50>>, <<100, 0>>, <<100, 100>>, <<250>>, <<0 - 10>>} :
          api_call' = [fn |-> "gpu_val", args |-> <<gpu_vals>>,
                       result |-> Outcome("", <<>>, gpu_val(gpu_vals))]
    /\ ApiUnchanged

\* ------------------------------------------------ the time a command takes
\* The default of _run's timeout parameter, which every caller but
\* get_gpu_utilization leaves alone, and the timeout get_gpu_utilization passes
RunTimeout == 30

GpuTimeout == 10

\* subprocess.run(cmd, timeout=timeout) on a command that would end as
\* `proc` after `duration` seconds: how it ends for _run, and after how long
RunWithin(proc, duration, timeout) ==
    IF proc \in {"not_found", "os_error"} THEN [proc |-> proc, after |-> 0]
    ELSE IF duration > timeout THEN [proc |-> "timeout", after |-> timeout]
    ELSE [proc |-> proc, after |-> duration]

\* subprocess_timeout of the configuration: the default and what a
\* configuration file can set
ConfigTimeouts == {5, 30, 60}

\* Seconds a command can take, up to a day for one that hangs
Durations == {0, 1, 5, 6, 10, 11, 29, 30, 31, 60, 61, 86400}

\* What a timed call gave: Outcome, the return code of the command and the
\* seconds the call took
TimedOutcome(raised, value, returncode, after) ==
    [raised |-> raised, value |-> value, returncode |-> returncode, after |-> after]

\* get_queue under a configuration with the given subprocess_timeout
get_queueCalled ==
    /\ \E subprocess_timeout \in ConfigTimeouts, proc \in ProcKinds \ {"timeout"},
          duration \in Durations, out \in StdoutKinds :
          LET ran == RunWithin(proc, duration, RunTimeout)
              got == get_queue(ran.proc, out, <<RawEntry(1, <<"a">>, <<"c", "p", "u">>,
                                                         JStr(S_RUNNING), 0)>>)
          IN api_call' = [fn |-> "get_queue", args |-> <<subprocess_timeout, proc, duration>>,
                          result |-> TimedOutcome(IF got.raised THEN "Exception" ELSE "",
                                                  got.jobs, _run(ran.proc).returncode,
                                                  ran.after)]
    /\ ApiUnchanged

\* get_gpu_utilization under a configuration with the given
\* subprocess_timeout: the values nvidia-smi printed, [] unless it exited with 0
get_gpu_utilizationCalled ==
    /\ \E subprocess_timeout \in ConfigTimeouts, proc \in ProcKinds \ {"timeout"},
          duration \in Durations :
          LET ran == RunWithin(proc, duration, GpuTimeout)
          IN api_call' = [fn |-> "get_gpu_utilization",
                          args |-> <<subprocess_timeout, proc, duration>>,
                          result |-> TimedOutcome(IF _run(ran.proc).raised THEN "Exception" ELSE "",
                                                  IF ran.proc = "exit0" THEN <<50>> ELSE <<>>,
                                                  _run(ran.proc).returncode, ran.after)]
    /\ ApiUnchanged

\* ------------------------------------------------------------ the templates
\* The names of DEFAULT_TEMPLATES
DEFAULT_TEMPLATES ==
    {"Quick CPU Job", "Multi-Node MPI", "Single GPU Training", "Large Memory Job",
     "Interactive Session"}

\* save_template: the directory is made, the file written
save_template(dir, name) == [is_dir |-> TRUE, files |-> dir.files \cup {name}]

\* delete_template: the file, when there is one, is unlinked
delete_template(dir, name) == [dir EXCEPT !.files = @ \ {name}]

\* ensure_default_templates: nothing when the directory holds a template,
\* else save_template for every default
ensure_default_templates(dir) ==
    IF dir.is_dir /\ dir.files # {} THEN dir
    ELSE [is_dir |-> TRUE, files |-> dir.files \cup DEFAULT_TEMPLATES]

\* The rest of the program while the templates change
TemplatesUnchanged ==
    UNCHANGED <<app_running, monitor_vars, history_vars, inspector_vars, config_vars,
                hardware_vars, sim_job, toasts>>

\* main(): a start of the application
ensure_default_templatesCalled ==
    /\ templates_dir' = ensure_default_templates(templates_dir)
    /\ api_call' = [fn |-> "ensure_default_templates", args |-> <<>>,
                    result |-> Outcome("", <<>>, <<>>)]
    /\ TemplatesUnchanged

\* The Composer saves the form under a name of the user's or over a default
save_templateCalled ==
    /\ \E name \in {"mine", "Quick CPU Job"} :
          /\ templates_dir' = save_template(templates_dir, name)
          /\ api_call' = [fn |-> "save_template", args |-> <<name>>,
                          result |-> Outcome("", <<>>, <<>>)]
    /\ TemplatesUnchanged

\* The user deletes a template in the Composer
delete_templateCalled ==
    /\ \E name \in DEFAULT_TEMPLATES \cup {"mine"} :
          /\ templates_dir' = delete_template(templates_dir, name)
          /\ api_call' = [fn |-> "delete_template", args |-> <<name>>,
                          result |-> Outcome("", <<>>, name \in templates_dir.files)]
    /\ TemplatesUnchanged

AppDefault == ConfigDefault /\ HardwareInit /\ SimDefault /\ ApiInit

Init == app_running = TRUE /\ MonitorInit /\ HistoryDefault /\ InspectorInit /\ AppDefault

vars == <<app_running, monitor_vars, history_vars, inspector_vars, app_vars>>

\* The queue poller alone: timer, manual refresh, workers and their fetches
NextPoll ==
    \/ OnMount
    \/ IntervalTick
    \/ ActionRefresh
    \/ QueueWorkerStarts
    \/ QueueFetchReturns
    \/ QueueOrphanReturns
    \/ QueueFetchApplied(QueueFetches)
    \/ ClockTick

SpecPoll == Init /\ [][NextPoll]_vars

\* The queue poller when every get_queue call returns a list in finite time,
\* the event loop runs what is ready and the interval timer keeps firing
ReturningFetches == {f \in QueueFetches : ~f.raised}

NextPollFair ==
    \/ OnMount
    \/ IntervalTick
    \/ QueueWorkerStarts
    \/ QueueFetchReturns
    \/ QueueOrphanReturns
    \/ QueueFetchApplied(ReturningFetches)

SpecPollFair ==
    /\ Init /\ [][NextPollFair]_vars
    /\ WF_vars(OnMount) /\ WF_vars(IntervalTick) /\ WF_vars(QueueWorkerStarts)
    /\ WF_vars(QueueFetchReturns) /\ WF_vars(QueueOrphanReturns)
    /\ WF_vars(QueueFetchApplied(ReturningFetches))

\* The queue view under polling and every key of the Monitor tab
NextView ==
    \/ OnMount
    \/ IntervalTick
    \/ QueueWorkerStarts
    \/ QueueFetchReturns
    \/ QueueOrphanReturns
    \/ QueueFetchApplied(TwoJobFetches)
    \/ OnInputChanged
    \/ OnKeyEscape
    \/ ActionToggleSelect
    \/ ActionSelectAll
    \/ ActionHoldJob
    \/ ActionReleaseJob
    \/ ActionCancelJob
    \/ ConfirmAnswered
    \/ BulkNextTarget
    \/ BulkFinished

SpecView == Init /\ [][NextView]_vars

\* The diff of _update_table under polling, with the filter and the
\* selection marks changing between ticks
NextDiff ==
    \/ OnMount
    \/ IntervalTick
    \/ QueueWorkerStarts
    \/ QueueFetchReturns
    \/ QueueOrphanReturns
    \/ QueueFetchApplied(QueueFetches)
    \/ OnInputChanged
    \/ ActionToggleSelect

SpecDiff == Init /\ [][NextDiff]_vars

\* The history poller, for every login name and configured window
InitHistory ==
    app_running = TRUE /\ MonitorInit /\ HistoryInit /\ InspectorInit /\ AppDefault

NextHistory ==
    \/ HistoryOnMount
    \/ HistoryIntervalTick
    \/ HistoryOnSelectChanged
    \/ HistoryActionRefresh
    \/ HistoryWorkerStarts
    \/ HistoryFetchReturns
    \/ HistoryOrphanReturns
    \/ HistoryFetchApplied
    \/ ClockTick

SpecHistory == InitHistory /\ [][NextHistory]_vars

\* The inspector poller: loading a job, leaving the tab, timer, workers and
\* their fetches
NextInspector ==
    \/ InspectorOnMount(JobDetails)
    \/ InspectJob(InspectIds, JobDetails)
    \/ ActionBackToMonitor
    \/ InspectorIntervalTick
    \/ InspectorWorkerStarts
    \/ InspectorFetchReturns
    \/ InspectorOrphanReturns
    \/ InspectorFetchApplied(JobDetails)

SpecInspector == Init /\ [][NextInspector]_vars

\* Jobs whose metrics take no sample: a finished one with both log files and
\* one without files
QuietJobs ==
    {d \in JobDetails : ~AsksSstat(d, <<"1">>) /\ d.slurmterm_metrics = <<>>}

\* A short log file and one over the cap whose last line starts inside the
\* last _MAX_INITIAL_READ bytes
TailFiles == {File(5, {2, 4}), File(_MAX_INITIAL_READ + 3, {1, 4, _MAX_INITIAL_READ + 2})}

\* The log tailer: starting and switching tails, leaving the tab, the tailer
\* threads and the chunks they hand to the UI thread
NextTail ==
    \/ InspectorOnMount(QuietJobs)
    \/ InspectJob({<<"1">>}, QuietJobs)
    \/ ActionToggleLogStream
    \/ ActionBackToMonitor
    \/ \E s \in 1..MaxGen :
         \/ TailerOpens(s, {"ok", "not_found", "permission"}, TailFiles)
         \/ TailerSeeks(s, {"ok"})
         \/ TailerReadsContent(s, {"ok"})
         \/ TailerFollows(s)
         \/ _append_log(s)

SpecTail == Init /\ [][NextTail]_vars

\* The generations of tails over one readable, still empty file: opening jobs with
\* and without log files, switching stdout and stderr
NextSwitch ==
    \/ InspectorOnMount(QuietJobs)
    \/ InspectJob({<<"1">>}, QuietJobs)
    \/ ActionToggleLogStream
    \/ \E s \in 1..MaxGen :
         \/ TailerOpens(s, {"ok"}, {File(0, {})})
         \/ TailerSeeks(s, {"ok"})
         \/ TailerReadsContent(s, {"ok"})
         \/ TailerFollows(s)
         \/ _append_log(s)

SpecSwitch == Init /\ [][NextSwitch]_vars

\* The same without the switch: every tail starts with the opening of a job
NextStop ==
    \/ InspectorOnMount(QuietJobs)
    \/ InspectJob({<<"1">>}, QuietJobs)
    \/ ActionBackToMonitor
    \/ \E s \in 1..MaxGen :
         \/ TailerOpens(s, {"ok"}, {File(5, {2, 4})})
         \/ TailerSeeks(s, {"ok"})
         \/ TailerReadsContent(s, {"ok"})
         \/ TailerFollows(s)
         \/ _append_log(s)

SpecStop == Init /\ [][NextStop]_vars

\* The log files _tail_file can meet: empty, short, of exactly the cap, and
\* over the cap with the offset size - cap inside a line, on a newline, at the
\* start of a line, and with no newline behind it
ReadFiles ==
    { File(0, {}),
      File(5, {2, 4}),
      File(_MAX_INITIAL_READ, {0, _MAX_INITIAL_READ - 1}),
      File(_MAX_INITIAL_READ + 3, {1, 4, _MAX_INITIAL_READ + 2}),
      File(_MAX_INITIAL_READ + 3, {3, _MAX_INITIAL_READ + 2}),
      File(_MAX_INITIAL_READ + 3, {2, 9, _MAX_INITIAL_READ + 2}),
      File(_MAX_INITIAL_READ + 1, {0}) }

\* The tailer of the one job that is opened, over every file and every
\* outcome of open, fstat, read and readline
NextRead ==
    \/ InspectorOnMount(QuietJobs)
    \/ (_current_job_id = None /\ InspectJob({<<"1">>}, QuietJobs))
    \/ ActionBackToMonitor
    \/ \E s \in 1..MaxGen :
         \/ TailerOpens(s, {"ok", "not_found", "permission", "os_error"}, ReadFiles)
         \/ TailerSeeks(s, {"ok", "os_error"})
         \/ TailerReadsContent(s, {"ok", "os_error"})
         \/ TailerFollows(s)
         \/ _append_log(s)

SpecRead == Init /\ [][NextRead]_vars

\* The metric windows: a job whose usage rises is opened once and polled,
\* the simulator ticks
InitWindow ==
    /\ app_running = TRUE /\ MonitorInit /\ HistoryDefault /\ InspectorInit
    /\ ConfigDefault /\ HardwareInit /\ SimInit /\ ApiInit

NextWindow ==
    \/ InspectorOnMount(SteadyJobs)
    \/ (_current_job_id = None /\ InspectJob({<<"1">>}, SteadyJobs))
    \/ MetricsSampleApplied(SteadyJobs)
    \/ SimTick
    \/ SimClock

SpecWindow == InitWindow /\ [][NextWindow]_vars

\* The queues of a user whose job 1 goes through any state and whose job 2
\* runs or has completed.
NotifyEntries ==
    {RawEntry(1, <<"A", "b">>, <<"g", "p", "u">>, JList(<<st>>), 0) :
        st \in {S_RUNNING, S_PENDING, S_COMPLETED, S_CANCELLED} \cup FailureStates}
    \cup {RawEntry(2, <<"r", "u", "n">>, <<"c", "p", "u">>, JStr(st), 0) :
            st \in {S_RUNNING, S_COMPLETED}}

NotifyQueues ==
    {<<>>} \cup {<<e>> : e \in NotifyEntries}
    \cup {<<a, b>> : a \in {e \in NotifyEntries : e.job_id = 1},
                     b \in {e \in NotifyEntries : e.job_id = 2}}

NotifyFetches == FetchesOver(NotifyQueues)

\* The queue polled under any setting of the [notifications] section.
InitNotify ==
    /\ app_running = TRUE
    /\ MonitorInit
    /\ HistoryDefault
    /\ InspectorInit
    /\ ConfigInit
    /\ HardwareInit
    /\ SimDefault
    /\ ApiInit

NextNotify ==
    \/ OnMount
    \/ IntervalTick
    \/ QueueWorkerStarts
    \/ QueueFetchReturns
    \/ QueueOrphanReturns
    \/ QueueFetchApplied(NotifyFetches)
    \/ ActionReloadConfig

SpecNotify == InitNotify /\ [][NextNotify]_vars

\* The three tabs that offer a manual refresh, their refresh keys and the clock.
NextRefresh ==
    \/ OnMount
    \/ ActionRefresh
    \/ HistoryOnMount
    \/ HistoryActionRefresh
    \/ HardwareOnMount
    \/ HardwareIntervalTick
    \/ HardwareActionRefresh
    \/ HardwareWorkerStarts
    \/ HardwareFetchReturns
    \/ HardwareOrphanReturns
    \/ HardwareFetchApplied
    \/ ClockTick

SpecRefresh == Init /\ [][NextRefresh]_vars

\* The action functions of SlurmController, called with any argument
NextActions ==
    \/ cancel_jobCalled
    \/ hold_jobCalled
    \/ release_jobCalled
    \/ submit_jobCalled

SpecActions == Init /\ [][NextActions]_vars

\* The validators of the submit form, called with any argument
NextValidators ==
    \/ format_timeCalled
    \/ parse_timeCalled

SpecValidators == Init /\ [][NextValidators]_vars

\* The conversions of the inspector's metrics, called with any argument
NextMetrics ==
    \/ _parse_rss_to_pctCalled
    \/ _parse_cpu_pctCalled
    \/ gpu_valCalled

SpecMetrics == Init /\ [][NextMetrics]_vars

\* Opening one job after another from the Monitor, with no poll in between
NextOpen ==
    \/ InspectorOnMount(JobDetails)
    \/ InspectJob(InspectIds, JobDetails)
    \/ ActionBackToMonitor

SpecOpen == Init /\ [][NextOpen]_vars

\* The calls of external commands, each taking its time
NextTimed ==
    \/ get_queueCalled
    \/ get_gpu_utilizationCalled

SpecTimed == Init /\ [][NextTimed]_vars

\* The templates on disk over starts of the application, saves and deletions,
\* from the first start on a machine without templates, which wrote the
\* defaults
InitTemplates ==
    /\ app_running = TRUE /\ MonitorInit /\ HistoryDefault /\ InspectorInit
    /\ ConfigDefault /\ HardwareInit /\ SimDefault
    /\ api_call = NoCall
    /\ templates_dir = ensure_default_templates(NoTemplates)
    /\ toasts = {}

NextTemplates ==
    \/ ensure_default_templatesCalled
    \/ save_templateCalled
    \/ delete_templateCalled

SpecTemplates == InitTemplates /\ [][NextTemplates]_vars

\* The simulator: polls, the clock, and the actions of the user on the job
InitSim ==
    /\ app_running = TRUE /\ MonitorInit /\ HistoryDefault /\ InspectorInit
    /\ ConfigDefault /\ HardwareInit /\ SimInit /\ ApiInit

NextSim ==
    \/ MockGetQueue
    \/ SimClock
    \/ MockCancelJob
    \/ MockHoldJob
    \/ MockReleaseJob

SpecSim == InitSim /\ [][NextSim]_vars

\* The same when polls keep coming and time keeps passing
SpecSimFair == SpecSim /\ WF_vars(MockGetQueue) /\ WF_vars(SimClock)

\* ------------------------------------------------------------ the claims
\* get_queue calls running right now, for live and for cancelled workers
QueueFetchesRunning == (IF queue_worker = "executing" THEN 1 ELSE 0) + queue_orphans

\* A step in which _fetch_queue resumes and applies what get_queue returned
QueueApplyStep == queue_worker = "returned" /\ queue_worker' = "none" /\ app_running'

\* get_sacct calls running right now, for live and for cancelled workers
HistoryFetchesRunning == (IF hist_worker.phase = "executing" THEN 1 ELSE 0) + hist_orphans

\* get_job_details calls running right now, for live and for cancelled workers
InspectorFetchesRunning ==
    (IF insp_worker.phase = "executing" THEN 1 ELSE 0) + insp_orphans

\* C1: every chunk in the log view was written by the tailer of the current
\* generation: since each new tail clears the view when it increments
\* _tail_gen, a chunk of an older generation in the view was applied after
\* the new tail had started.
AppliedChunksAreCurrent ==
    \A i \in 1..Len(log_view) : log_view[i].gen = _tail_gen

\* C2: at no time are two fetches of the same resource executing.
AtMostOneFetchPerResource ==
    /\ QueueFetchesRunning <= 1
    /\ HistoryFetchesRunning <= 1
    /\ InspectorFetchesRunning <= 1

\* C3: a tick that arrives while a fetch is in flight is dropped: no new
\* worker is started, and the fetch in flight goes on to return and to have
\* its result applied.
TickCoalescing ==
    [][/\ queue_worker = "executing" => queue_worker' \in {"executing", "returned"}
       /\ queue_worker = "returned" => queue_worker' \in {"returned", "none"}
       /\ queue_orphans' = queue_orphans]_vars

\* C4: while the inspector's poller is stopped, a job-detail fetch that
\* completes leaves the header, the progress bar, the charts and the metric
\* windows as they are.
NoApplicationAfterStop ==
    [][(~_poll_timer /\ insp_worker.phase = "returned" /\ insp_worker'.phase = "none")
          => UNCHANGED <<header, metric_vars>>]_vars

\* C5: applying a failed queue fetch leaves the displayed rows and the
\* retained job map as they were before the tick.
FailedFetchKeepsView ==
    [][(QueueApplyStep /\ table_ops'.failed) => (rows' = rows /\ _jobs' = _jobs)]_vars

\* C6: a fetch that ends, with a result or with a failure, does not stop the
\* schedule: the app is still up and the interval timer still set, so the
\* interval keeps firing and a later fetch can be applied.
FailedFetchKeepsPolling ==
    [][(queue_worker = "returned" /\ queue_worker' = "none")
          => (app_running' /\ queue_timer')]_vars

\* C7: no exception of a fetch leaves the polling worker: when _fetch of the
\* History tab resumes after get_sacct, whatever the login name, the window and
\* the outcome of sacct, the worker ends without an error and the app goes on.
PollFailuresAbsorbed ==
    [][(hist_worker.phase = "returned" /\ hist_worker'.phase = "none") => app_running']_vars

\* C8: the selected ids are always ids of the current job snapshot.
SelectionPruned == _selected \subseteq Keys(_jobs)

\* C8 witness: a tick pruned a selected job that left the queue while another
\* job stays selected.
SelectionPrunedWitness ==
    table_ops.kind = "update" /\ table_ops.pruned # {} /\ _selected # {}

RowShows(row, jobs, selected) ==
    row.key \in Keys(jobs) /\ row = RowFor(JobOf(jobs, row.key), selected)

\* C9: without a filter, a tick that applies snapshot N over O removes exactly
\* the rows keys(O) - keys(N), adds exactly keys(N) - keys(O), and leaves one
\* row per job of N, each showing N's values for its job.
DiffCorrect ==
    [][(QueueApplyStep /\ _search_query = <<>>) =>
        /\ ~table_ops'.cleared
        /\ table_ops'.removed = Keys(_jobs) \ Keys(_jobs')
        /\ table_ops'.added = Keys(_jobs') \ Keys(_jobs)
        /\ RowKeys(rows') = Keys(_jobs')
        /\ Len(rows') = Len(_jobs')
        /\ \A i \in 1..Len(rows') : RowShows(rows'[i], _jobs', _selected')]_vars

\* C9 witness: one tick removed a row, updated a row to new values and added
\* a row.
DiffCorrectWitness ==
    /\ table_ops.kind = "update" /\ ~table_ops.cleared
    /\ table_ops.removed # {} /\ table_ops.added # {}
    /\ table_ops.updated \ table_ops.same # {}

\* C10: a tick performs no update on the row of a job whose tuple
\* (state, time_used, reason, nodes) did not change; with equal snapshots it
\* performs no update at all.
NoRedundantUpdate ==
    (table_ops.kind = "update" /\ ~table_ops.cleared)
        => table_ops.updated \cap table_ops.same = {}

\* `new` is `old` with one sample appended and, when `old` was full, its oldest
\* sample evicted
Slid(old, new) ==
    /\ new # <<>>
    /\ new = IF Len(old) < 60 THEN Append(old, new[Len(new)])
             ELSE Append(Tail(old), new[Len(new)])

\* C11: no metric window of the inspector and no metric history of the
\* simulator is ever longer than 60; every sample goes to the end of its
\* window and, once the window holds 60, evicts the oldest one, so that a
\* window always holds the most recent samples in arrival order. (Opening a
\* job empties the windows and takes at most one sample.)
WindowBounded ==
    /\ [](/\ Len(_cpu_history) <= 60 /\ Len(_mem_history) <= 60 /\ Len(_gpu_history) <= 60
          /\ \A k \in {"cpu", "mem", "gpu"} : Len(sim_job.metrics[k]) <= 60)
    /\ [][/\ (_tail_gen' = _tail_gen /\ _mem_history' # _mem_history
                                     /\ _mem_history' # <<>>)
              => /\ Slid(_cpu_history, _cpu_history')
                 /\ Slid(_mem_history, _mem_history')
                 /\ Slid(_gpu_history, _gpu_history')
          /\ _tail_gen' # _tail_gen => Len(_mem_history') <= 1
          /\ \A k \in {"cpu", "mem", "gpu"} :
                sim_job'.metrics[k] # sim_job.metrics[k]
                   => Slid(sim_job.metrics[k], sim_job'.metrics[k])]_vars

\* C11 witness: the memory window of the inspector and the cpu history of the
\* simulator are full and have evicted their first samples.
WindowBoundedWitness ==
    /\ Len(_mem_history) = 60 /\ _mem_history[1] > 2 /\ _mem_history[60] > _mem_history[1]
    /\ Len(sim_job.metrics["cpu"]) = 60 /\ sim_job.metrics["cpu"][1] > 30

\* The state of a job in a snapshot, as _update_table compares it
StateIn(jobs, k) == Upper(JobOf(jobs, k).state)

\* C12 (as stated): when a queue snapshot is applied, a job of both snapshots
\* is notified as completed exactly when its new state is COMPLETED and
\* differs from the old one, as failed exactly when its new state is FAILED,
\* TIMEOUT, NODE_FAIL or OUT_OF_MEMORY and differs from the old one, and not
\* at all otherwise.
TransitionNotifiedAlways ==
    [][QueueApplyStep =>
        \A k \in Keys(_jobs) \cap Keys(_jobs') :
            LET changed == StateIn(_jobs, k) # StateIn(_jobs', k)
            IN /\ Notice(k, "Job Completed") \in table_ops'.notified
                    <=> (changed /\ StateIn(_jobs', k) = S_COMPLETED)
               /\ Notice(k, "Job Failed") \in table_ops'.notified
                    <=> (changed /\ StateIn(_jobs', k) \in
                            {S_FAILED, S_TIMEOUT, S_NODE_FAIL, S_OUT_OF_MEMORY})
               /\ Notice(k, "Job Finished") \notin table_ops'.notified]_vars

\* C12 (amended): the same classification, each kind produced only while its
\* setting is on: completed needs notify_on_complete, failed needs
\* notify_on_fail.
TransitionNotifiedWhenEnabled ==
    [][QueueApplyStep =>
        \A k \in Keys(_jobs) \cap Keys(_jobs') :
            LET changed == StateIn(_jobs, k) # StateIn(_jobs', k)
            IN /\ Notice(k, "Job Completed") \in table_ops'.notified
                    <=> (notify_on_complete /\ changed /\ StateIn(_jobs', k) = S_COMPLETED)
               /\ Notice(k, "Job Failed") \in table_ops'.notified
                    <=> (notify_on_fail /\ changed /\ StateIn(_jobs', k) \in
                            {S_FAILED, S_TIMEOUT, S_NODE_FAIL, S_OUT_OF_MEMORY})
               /\ Notice(k, "Job Finished") \notin table_ops'.notified]_vars

\* One snapshot completed a job and failed another, with both settings on.
TransitionNotifiedWitness ==
    /\ notify_on_complete /\ notify_on_fail
    /\ \E a, b \in table_ops.notified :
          a.title = "Job Completed" /\ b.title = "Job Failed" /\ a.job_id # b.job_id

\* C13 (as stated): a job of the previous snapshot that is absent from the
\* new one gets a "finished" notification exactly when its previous state
\* was RUNNING.
DisappearanceNotifiedAlways ==
    [][QueueApplyStep =>
        \A k \in Keys(_jobs) \ Keys(_jobs') :
            /\ Notice(k, "Job Finished") \in table_ops'.notified
                 <=> StateIn(_jobs, k) = S_RUNNING
            /\ \A n \in table_ops'.notified : n.job_id = k => n.title = "Job Finished"]_vars

\* C13 (amended): the same, produced only while notify_on_complete is on.
DisappearanceNotifiedWhenEnabled ==
    [][QueueApplyStep =>
        \A k \in Keys(_jobs) \ Keys(_jobs') :
            /\ Notice(k, "Job Finished") \in table_ops'.notified
                 <=> (notify_on_complete /\ StateIn(_jobs, k) = S_RUNNING)
            /\ \A n \in table_ops'.notified : n.job_id = k => n.title = "Job Finished"]_vars

\* Two jobs left the queue in one snapshot: the one that was running was
\* reported, the other was not.
DisappearanceNotifiedWitness ==
    /\ notify_on_complete
    /\ _jobs = <<>>
    /\ Cardinality(table_ops.removed) = 2
    /\ \E n \in table_ops.notified : n.title = "Job Finished"
    /\ \E k \in table_ops.removed : \A n \in table_ops.notified : n.job_id # k

\* C14: for the queue, the hardware and the history poller, two fetches
\* started by manual refresh are at least 2 seconds apart, and a refresh
\* request inside the cooldown starts no fetch and leaves the timestamp of
\* the last refresh unchanged.
ManualRefreshCooldown ==
    [][/\ _last_manual_refresh' # _last_manual_refresh
            => now - _last_manual_refresh >= 2
       /\ hist_last_manual_refresh' # hist_last_manual_refresh
            => now - hist_last_manual_refresh >= 2
       /\ (hw_refreshes' # hw_refreshes /\ hw_refreshes # <<>>)
            => now - hw_refreshes[Len(hw_refreshes)] >= 2]_vars

\* C15: the UI thread performs no blocking external call: what get_job_details
\* returned reaches the header only in the step that resumes a background
\* worker after its call ended in the executor, never in the step of a key
\* press or of a mount.
DetailsComeFromWorkers ==
    [][header' # header => insp_worker.phase = "returned" /\ insp_worker' = NoWorker]_vars

\* C16: once _stop_polling has run and until a job is opened again, no tailer
\* reads a further line of its file, whether its thread was following or had
\* not begun to run when the inspection ended.
TailersStopWithInspection ==
    [][~_poll_timer => \A s \in 1..MaxGen : tailers'[s].lines = tailers[s].lines]_vars

\* C17: a tailer whose generation is no longer the current one leaves the
\* follow loop at its next check of the loop condition, whatever the value of
\* _tailing: it reads no line and hands nothing over.
SupersededTailerExits ==
    [][\A s \in 1..MaxGen :
          (/\ tailers[s].pc = "loop" /\ tailers[s].gen # _tail_gen
           /\ tailers'[s].pc # "loop")
             => tailers'[s] = [tailers[s] EXCEPT !.pc = "done"]]_vars

\* C17 witness: a tailer that nothing cancelled (the next job had no log
\* file) handed over a line of its file and left its loop under a newer
\* generation while _tailing was set.
SupersededTailerExitsWitness ==
    \E s \in 1..MaxGen :
        /\ tailers[s].pc = "done" /\ ~tailers[s].cancelled
        /\ tailers[s].gen < _tail_gen
        /\ tailers[s].emitted # <<>>
        /\ tailers[s].failure = ""
        /\ _tailing

\* A step that starts a tail: a worker is queued, or the view is cleared for
\* the banner of a job without a log file
TailStartStep ==
    \/ Started' # Started
    \/ /\ log_view' # log_view
       /\ Len(log_view') = 1
       /\ log_view'[1].kind \in {"banner", "no_file"}

\* C18: _tail_gen never decreases and increases on every tail start (a job
\* opened with or without a log path, a switch between stdout and stderr);
\* the tailers were started with pairwise distinct generations, so at most one
\* of them has the current generation.
GenerationsIncrease ==
    /\ [][/\ _tail_gen' >= _tail_gen
          /\ TailStartStep => _tail_gen' > _tail_gen]_vars
    /\ [](/\ \A s, r \in Started : s # r => tailers[s].gen # tailers[r].gen
          /\ Cardinality({s \in Started : tailers[s].gen = _tail_gen}) <= 1)

\* C18 witness: after a job with log files, a switch to stderr and a job
\* without a log path, or the like: three tail starts, one of them without a
\* tailer, the last one with the tailer that is current.
GenerationsIncreaseWitness ==
    /\ _tail_gen >= 3
    /\ Cardinality(Started) >= 2
    /\ Cardinality(Started) < _tail_gen
    /\ \E s \in Started : tailers[s].gen = _tail_gen /\ tailers[s].pc = "loop"
    /\ \E s \in Started : tailers[s].gen < _tail_gen /\ tailers[s].pc = "loop"

\* The chunks that report an error
ErrorKinds == {"not_found", "permission", "inaccessible"}

\* The positions of the error chunks among the chunks a tailer handed over
ErrorChunks(tailer) ==
    {i \in 1..Len(tailer.emitted) : tailer.emitted[i].kind \in ErrorKinds}

\* C19: a tailer that met a failure (the file missing or unreadable at open,
\* an I/O error during the initial read or during follow) has handed over
\* exactly one error chunk and has ended; an error chunk is the last chunk of
\* its tailer.
TailerFailureSemantics ==
    \A s \in Started :
        LET t == tailers[s]
        IN /\ t.failure # ""
                => /\ Cardinality(ErrorChunks(t)) = 1
                   /\ t.pc = "done" \/ (t.pc = "waiting" /\ t.resume = "done")
           /\ ErrorChunks(t) \subseteq {Len(t.emitted)}

\* The first offset after `offset` at which a line of the file starts or the
\* file ends
LineBoundaryAfter(file, offset) ==
    LET bounds == {b \in {n + 1 : n \in file.newlines} \cup {file.size} : b > offset}
    IN CHOOSE b \in bounds : \A c \in bounds : b <= c

\* What a tailer handed over before it began to follow
InitialChunks(tailer) ==
    SelectSeq(tailer.emitted, LAMBDA c : c.kind \in {"skipped", "content"})

\* The tailer has read the size of its file and the content, and follows
InitialReadDone(tailer) ==
    /\ tailer.failure = ""
    /\ tailer.pc = "loop" \/ (tailer.pc = "waiting" /\ tailer.resume = "loop")

WindowsBelongToOneJob ==
    [][(/\ insp_worker.phase = "returned" /\ insp_worker'.phase = "none"
        /\ insp_worker.arg # _current_job_id)
          => UNCHANGED <<header, metric_vars>>]_vars

\* C22: after every applied tick, with or without a filter, the displayed
\* rows are in the order in which squeue reported their jobs in the snapshot
\* of that tick.
RowsInReportedOrder ==
    [][QueueApplyStep =>
        LET shown == _filtered_jobs(_jobs', _search_query')
        IN [i \in 1..Len(rows') |-> rows'[i].key]
             = [i \in 1..Len(shown) |-> shown[i].job_id]]_vars

\* `text` holds `query` somewhere, letter case aside
HasIgnoringCase(text, query) ==
    \E i \in 1..(Len(text) - Len(query) + 1) :
        Lower(SubSeq(text, i, i + Len(query) - 1)) = Lower(query)

\* A job the query selects: by name, id, state or partition
Selects(query, job) ==
    \/ HasIgnoringCase(job.name, query)
    \/ HasIgnoringCase(job.job_id, query)
    \/ HasIgnoringCase(job.state, query)
    \/ HasIgnoringCase(job.partition, query)

\* C23: while a filter query is active the displayed rows are exactly the
\* jobs of the latest snapshot whose name, id, state or partition holds the
\* query, letter case aside; a tick or a change of the query that leaves a
\* filter active rebuilds the table from empty.
FilteredView ==
    /\ [](_search_query # <<>> =>
            /\ RowKeys(rows) = {j.job_id : j \in {x \in SeqToSet(_jobs) : Selects(_search_query, x)}}
            /\ Len(rows) = Cardinality(RowKeys(rows)))
    /\ [][((QueueApplyStep \/ _search_query' # _search_query) /\ _search_query' # <<>>)
            => table_ops'.cleared]_vars

\* C23 witness: under the filter "gp" a tick rebuilt the table with some of the
\* jobs of its snapshot, selected by their partition, and left others out.
FilteredViewWitness ==
    /\ _search_query = <<"g", "p">>
    /\ table_ops.kind = "update" /\ table_ops.cleared
    /\ rows # <<>> /\ Len(rows) < Len(_jobs)

\* ^\d+(_\d+)?$ read as a pattern for the whole text
IsJobId(s) ==
    LET parts == Split(s, "_")
    IN Len(parts) \in {1, 2} /\ \A i \in 1..Len(parts) : IsNumber(parts[i])

\* A parameter key that is a letter followed by letters, digits, _ and -
IsSafeKey(key) ==
    /\ key # <<>>
    /\ \A i \in 1..Len(key) :
          \/ \E n \in 1..26 : key[i] = UpperLetters[n] \/ key[i] = LowerLetters[n]
          \/ i > 1 /\ (key[i] \in {"_", "-"} \/ \E n \in 1..10 : key[i] = Digits[n])

\* C24: cancel, hold and release called with a job id that does not match
\* ^\d+(_\d+)?$, and submit called with an unsafe parameter key, raise a
\* validation error and invoke no command; the array id 12345_1 is accepted.
ValidationBeforeInvocation ==
    /\ api_call.fn \in {"cancel_job", "hold_job", "release_job"} =>
          /\ ~IsJobId(api_call.args[1])
                => api_call.result.raised = "ValueError" /\ api_call.result.argv = <<>>
          /\ api_call.args[1] = <<"1", "2", "3", "4", "5", "_", "1">>
                => api_call.result.raised # "ValueError"
    /\ api_call.fn = "submit_job" =>
          ((\E i \in 1..Len(api_call.args[2]) : ~IsSafeKey(api_call.args[2][i][1]))
              => api_call.result.raised = "ValueError" /\ api_call.result.argv = <<>>)

\* C25: for every non-negative number of seconds S, parse_time of what
\* format_time(S) gives returns S.
DurationRoundTrip ==
    [][(/\ api_call.fn = "format_time" /\ api_call.args[1] >= 0
        /\ api_call'.fn = "parse_time" /\ api_call'.args[1] = api_call.result.value)
          => api_call'.result = Outcome("", <<>>, api_call.args[1])]_vars

DurationRoundTripWitness ==
    /\ api_call.fn = "parse_time"
    /\ api_call.args[1] = <<"1", "-", "0", "1", ":", "0", "1", ":", "0", "1">>
    /\ api_call.result.value = 90061

\* C26: every metric sample lies in [0, 100], whatever the input string and
\* the total: the memory percentage, the CPU percentage and the averaged GPU
\* value; an empty memory string or a total of 0 gives 0.
SamplesInRange ==
    api_call.fn \in {"_parse_rss_to_pct", "_parse_cpu_pct", "gpu_val"} =>
        /\ api_call.result.value \in 0..100
        /\ (api_call.fn = "_parse_rss_to_pct"
               /\ (api_call.args[1] = <<>> \/ api_call.args[2] = 0))
             => api_call.result.value = 0

\* C27: for a CPU time in duration form the percentage is cpu_seconds /
\* elapsed_seconds * 100 capped at 100 when elapsed_seconds > 0, and 0 when
\* elapsed_seconds is 0 or the string is empty or no duration; the call
\* always returns.
CpuPercentFromDuration ==
    api_call.fn = "_parse_cpu_pct" =>
        LET cpu_str == api_call.args[1]
            elapsed_seconds == api_call.args[2]
            pct == api_call.result.value
        IN /\ api_call.result.raised = ""
           /\ \A cpu \in CpuSeconds :
                 cpu_str = format_time(cpu).value =>
                    pct = IF elapsed_seconds > 0
                          THEN Min(100, (cpu * 100) \div elapsed_seconds) ELSE 0
           /\ cpu_str \in {<<>>, <<"3", "0">>, <<"a">>, <<"1", ":", "2", ":", "3", ":", "4">>,
                            <<"x", ":", "y">>, <<"a", "-", "0", "0", ":", "0", "1">>, <<":">>}
                 => pct = 0
           /\ (elapsed_seconds = 0 /\ (cpu_str = <<>> \/ cpu_str[Len(cpu_str)] # "%")) => pct = 0

CpuPercentFromDurationWitness ==
    /\ api_call.fn = "_parse_cpu_pct"
    /\ api_call.args = <<<<"0", "0", ":", "0", "1", ":", "3", "0">>, 60>>
    /\ api_call.result.value = 100

\* C28: the progress shown for the inspected job is min(run_time,
\* total_time) of that job, and for a job whose time limit is 0 no progress
\* is shown (the bar has no total), after any sequence of load_job calls.
ProgressOfInspectedJob ==
    header.kind = "job" =>
        \E d \in JobDetails :
            /\ header = _render_header(d, header.job_id)
            /\ progress = IF d.time_limit > 0
                          THEN [total |-> d.time_limit * 60,
                                progress |-> Min(d.run_time, d.time_limit * 60)]
                          ELSE [total |-> 0, progress |-> 0]

\* C29: every call of an external command returns within the configured
\* timeout, with a result or with a timeout failure that no other failure
\* looks like (return code 124), and the timeout reaches the caller as an
\* empty result, not as an exception.
ExternalCallsTerminate ==
    api_call.fn \in {"get_queue", "get_gpu_utilization"} =>
        LET subprocess_timeout == api_call.args[1]
            runs == api_call.args[2] \notin {"not_found", "os_error"}
            timed_out == runs /\ api_call.args[3] > subprocess_timeout
        IN /\ api_call.result.after <= subprocess_timeout
           /\ timed_out <=> (api_call.result.raised = "" /\ api_call.result.returncode = 124)
           /\ timed_out => api_call.result.value = <<>>

\* C30: when load_job gets an empty detail response no poll timer is left
\* set and no tailer is started, the error display replaces the details
\* (error header, tabs hidden, failure status) and the application keeps
\* running; a later load_job of a job that is found shows it, starts its
\* tail and, with the application running, sets its timer.
NotFoundInInspector ==
    /\ [][(header' # header /\ header'.kind = "error")
            => /\ header'.job_id = _current_job_id'
               /\ ~_poll_timer'
               /\ Started' = Started /\ _tail_gen' = _tail_gen
               /\ app_running' = app_running]_vars
    /\ [][(header.kind = "error" /\ header'.kind = "job")
            => /\ header'.job_id = _current_job_id'
               /\ _tail_gen' = _tail_gen + 1
               /\ app_running' => _poll_timer']_vars

NotFoundInInspectorWitness ==
    /\ header.kind = "error" /\ header.job_id = _current_job_id
    /\ Started # {}
    /\ ~_poll_timer /\ app_running

\* C31: once the default templates have been written, a later start of the
\* application recreates no default template the user deleted, for every
\* sequence of deletions and restarts.
DefaultsSeededOnce ==
    [][api_call'.fn = "ensure_default_templates"
          => \A name \in DEFAULT_TEMPLATES :
                name \notin templates_dir.files => name \notin templates_dir'.files]_vars

\* C32: once the job of the simulator is COMPLETED, FAILED, TIMEOUT or
\* CANCELLED, no poll tick and no cancel, hold or release call changes its
\* state.
TerminalStatesAbsorbing ==
    [][(sim_job.present /\ sim_job.state \in SimTerminal /\ sim_job'.present)
          => sim_job'.state = sim_job.state]_vars

\* C38: a job of the simulator that has reached a terminal state, a
\* cancelled one included, is eventually removed from the queue by the poll
\* ticks that follow.
TerminalJobsLeave ==
    (sim_job.present /\ sim_job.state \in SimTerminal) ~> ~sim_job.present

\* C39: after cancel_job returned true for the job, the next queue snapshot
\* reports it in state CANCELLED, whatever hold and release calls came before.
CancelledIsReported ==
    [][(/\ api_call.fn = "MockSlurmController.cancel_job" /\ api_call.result.value
        /\ api_call'.fn = "MockSlurmController.get_queue")
          => api_call'.result.value = <<"CANCELLED">>]_vars

\* C33: provided every fetch returns in finite time, the mounted queue
\* poller eventually applies a snapshot to its table, also when ticks keep
\* arriving while a fetch is in flight.
PollingMakesProgress == queue_timer ~> table_ops.kind = "update"

\* C34: a queue fetch that failed (the poller received the empty list of a
\* failed squeue) is applied without any end-of-job notification.
FailedFetchNotifiesNothing ==
    [][(QueueApplyStep /\ table_ops'.kind = "update" /\ table_ops'.failed)
          => table_ops'.notified = {}]_vars

\* C35: whatever the snapshots, no job id has been given more than one
\* completed/finished/failed notification.
OneEndNoticePerJob == \A p \in toasts : p[2] <= 1

\* The chunks of file content among `chunks`
FileChunks(chunks) == SelectSeq(chunks, LAMBDA c : c.kind \in {"content", "line"})

\* What the file of a tailer holds from the offset at which the tailer started
\* to read: the content up to the size at the open, then the lines the tailer
\* has read since
FromStart(tailer) ==
    LET size == tailer.file.size
        seeked == \E i \in 1..Len(tailer.emitted) : tailer.emitted[i].kind = "skipped"
        start == IF seeked THEN LineBoundaryAfter(tailer.file, size - 1048576) ELSE 0
        content == IF start < size THEN <<Chunk("content", start, size)>> ELSE <<>>
    IN content \o [i \in 1..tailer.lines |-> Chunk("line", i, i)]

BulkActionsComplete ==
    [][(bulk.active /\ bulk' # bulk)
          => \/ /\ Len(bulk.todo) > 1
                /\ bulk' = [bulk EXCEPT !.todo = Tail(bulk.todo)]
             \/ /\ Len(bulk.todo) = 1
                /\ bulk' = NoBulk
                /\ _selected' = {}
                /\ queue_worker' # "none"]_vars

\* The targets of a bulk action as the table shows them: the whole selection
\* in some order when there is one, the row under the cursor otherwise
ShownTargets ==
    IF _selected # {} THEN Orderings(_selected) ELSE {<<jid>> : jid \in RowKeys(rows)}

\* C40: select-all clears the whole selection when every displayed row is
\* selected and makes the selection the set of the displayed rows otherwise;
\* the toggle of a cursor row changes the membership of that row alone, and a
\* second toggle of the same row gives the selection back; hold and release
\* start on, and cancel asks for and on confirmation starts on, the whole
\* selection when it is non-empty and the cursor row otherwise.
SelectionAndTargets ==
    /\ [][ActionSelectAll =>
             _selected' = IF RowKeys(rows) \subseteq _selected THEN {} ELSE RowKeys(rows)]_vars
    /\ [][ActionToggleSelect =>
             \/ rows = <<>> /\ _selected' = _selected
             \/ \E jid \in RowKeys(rows) :
                   /\ (jid \in _selected') # (jid \in _selected)
                   /\ _selected' \ {jid} = _selected \ {jid}
                   /\ ToggleSelected(_selected', jid) = _selected]_vars
    /\ [][((ActionHoldJob \/ ActionReleaseJob) /\ bulk' # bulk)
             => bulk'.active /\ bulk'.todo \in ShownTargets]_vars
    /\ [][(ActionCancelJob /\ confirm' # confirm)
             => confirm'.up /\ confirm'.targets \in ShownTargets]_vars
    /\ [][(ConfirmAnswered /\ bulk' # bulk)
             => bulk'.active /\ bulk'.todo = confirm.targets]_vars

\* C40 witness: both displayed jobs are selected and a bulk action runs over
\* the two of them.
SelectionAndTargetsWitness ==
    /\ Cardinality(_selected) = 2
    /\ RowKeys(rows) = _selected
    /\ bulk.active
    /\ SeqToSet(bulk.todo) = _selected
    /\ Len(bulk.todo) = 2

====
